---- MODULE Spec2Model ----
(***************************************************************************)
(* Model of the task bot (src/VpB06/bot.py): the tasks table, the two     *)
(* per-user session dictionaries and one action per dispatcher handler.   *)
(*                                                                         *)
(* Texts are sequences of tokens: a command word ("/add"), a button label,*)
(* a blank (" ") or a letter.  The Cyrillic literals of the source are    *)
(* written in ASCII: "Novyj" and "Vypolnena" are the two statuses,        *)
(* "Vazhnaya" and "Nevazhnaya" the two categories.  Command texts are     *)
(* those of a private chat: the command word carries no @mention.         *)
(* Each handler is one atomic action (one update handled at a time) in    *)
(* Spec and SpecExport; SpecAwait runs the handlers of the creation flow  *)
(* and of the export as the steps between their awaits.                   *)
(***************************************************************************)
EXTENDS Integers, Sequences, FiniteSets, TLC

\* ------------------------------------------------------------- bounds
\* The number of rows the table may hold before inserts are cut off.
MaxTasks == 2

Users == {1, 2}

\* ---------------------------------------------------------- literals
Statuses == {"Novyj", "Vypolnena"}
Categories == {"Vazhnaya", "Nevazhnaya"}
None == "None"

BtnAdd == "Dobavit zadachu"
BtnList == "Spisok zadach"
BtnEdit == "Redaktirovat zadachu"
BtnExport == "Eksport CSV"
BtnCancel == "Otmena"

\* The message texts the users send.
Messages ==
    { <<"/start">>,
      <<"/add">>, <<"/add", " ">>, <<"/add", " ", "a", " ">>,
      <<BtnAdd>>,
      <<"/list">>, <<BtnList>>,
      <<"/edit">>, <<BtnEdit>>,
      <<"/list_csv">>, <<BtnExport>>,
      <<BtnCancel>>,
      <<" ", "a">>, <<" ">> }

\* Callback payloads, as the handlers split them on "_": the prefix that
\* routes the callback, the integer token and the value token.
NoData == [prefix |-> "", num |-> 0, val |-> ""]
TaskIds == 1..(MaxTasks + 1)
CallbackData ==
    [prefix : {"task"}, num : TaskIds, val : {""}]
    \cup [prefix : {"status"}, num : TaskIds, val : Statuses]
    \cup [prefix : {"category"}, num : TaskIds, val : Categories]
    \cup [prefix : {"new_task_status"}, num : Users, val : Statuses]
    \cup [prefix : {"new_task_category"}, num : Users, val : Categories]
    \cup [prefix : {"back_to_list"}, num : {0}, val : {""}]

\* --------------------------------------------------------------- state
VARIABLES
    tasks,          \* the rows of table tasks
    seq,            \* the AUTOINCREMENT counter of table tasks
    user_states,    \* dict user_id -> stage value
    pending_tasks,  \* dict user_id -> task text
    files,          \* the working directory: dict file name -> content
    handler,        \* the handler that handled the last update
    out,            \* the notices that handler sent, in order
    document,       \* the content of the document that handler delivered
    \* src/pdf_generator.py
    call_data,      \* the mapping a function is called with (its data)
    call_number,    \* calculate_fields: the record_number it is called with
    call_total,     \* calculate_fields: the total_records it is called with
    call_template,  \* substitute_template: the template it is called with
    returned,       \* what the function called last returned or raised
    csv_data,       \* main: the rows read from the CSV file
    html_template,  \* main: the template read from the HTML file
    idx,            \* main: the number of the row the loop handled last
    success_count,  \* main: the rows rendered
    error_count,    \* main: the rows that failed
    generated_pdfs, \* main: the file names given to generate_pdf, in order
    \* the event loop
    running,        \* the handlers suspended at an await, in the order they began
    created         \* per user, the number of drafts the user has created

bot_vars == <<tasks, seq, user_states, pending_tasks, files, out, document>>
pdf_vars ==
    <<call_data, call_number, call_total, call_template, returned, csv_data,
      html_template, idx, success_count, error_count, generated_pdfs>>
loop_vars == <<running, created>>
vars == <<bot_vars, handler, pdf_vars, loop_vars>>

\* The pdf generator before it is started.
pdf_idle ==
    /\ call_data = <<>>
    /\ call_number = 0
    /\ call_total = 0
    /\ call_template = <<>>
    /\ returned = <<>>
    /\ csv_data = <<>>
    /\ html_template = <<>>
    /\ idx = 0
    /\ success_count = 0
    /\ error_count = 0
    /\ generated_pdfs = <<>>

\* No handler is suspended and no draft has been created.
loop_idle ==
    /\ running = <<>>
    /\ created = [u \in Users |-> 0]

\* ------------------------------------------------------- python dicts
pop(d, k) == [x \in (DOMAIN d) \ {k} |-> d[x]]
put(d, k, v) == [x \in (DOMAIN d) \cup {k} |-> IF x = k THEN v ELSE d[x]]

\* The values user_states holds: one of two strings, or a dict.
StrState(s) == [kind |-> s, status |-> "", text |-> <<>>]
DictState(s, t) == [kind |-> "dict", status |-> s, text |-> t]

\* ------------------------------------------------------- str helpers
RECURSIVE lstrip(_)
lstrip(t) == IF t # <<>> /\ Head(t) = " " THEN lstrip(Tail(t)) ELSE t

RECURSIVE rstrip(_)
rstrip(t) ==
    IF t # <<>> /\ t[Len(t)] = " " THEN rstrip(SubSeq(t, 1, Len(t) - 1)) ELSE t

\* Mutant of strip: the text is taken as typed.
strip_Nothing(t) == t

strip(t) == rstrip(lstrip(t))

\* str.replace(old, "", 1) for a one-token old.
RECURSIVE replace_first(_, _)
replace_first(t, old) ==
    IF t = <<>> THEN <<>>
    ELSE IF Head(t) = old THEN Tail(t)
    ELSE <<Head(t)>> \o replace_first(Tail(t), old)

\* ---------------------------------------------------------- the store
\* datetime.now(timezone.utc): a logical clock that ticks at every insert.
now(n) == n + 1

\* Mutant of add_task: the chosen status is not passed on, the column
\* default is stored.
add_task_DefaultStatus(db, n, text, user_id, status, category) ==
    db \cup { [id |-> n + 1, text |-> text, user |-> user_id,
               created_at |-> now(n), status |-> "Novyj", category |-> category] }

\* Mutant of add_task: ids are numbered within each owner.
add_task_PerOwnerId(db, n, text, user_id, status, category) ==
    db \cup { [id |-> Cardinality({r \in db : r.user = user_id}) + 1, text |-> text,
               user |-> user_id, created_at |-> now(n), status |-> status,
               category |-> category] }

\* INSERT INTO tasks(text, user, created_at, status, category): the id is
\* the AUTOINCREMENT counter n advanced by one.
add_task(db, n, text, user_id, status, category) ==
    db \cup { [id |-> n + 1, text |-> text, user |-> user_id,
               created_at |-> now(n), status |-> status, category |-> category] }

\* The columns a SELECT id, text, created_at, status, category returns.
columns(r) ==
    [id |-> r.id, text |-> r.text, created_at |-> r.created_at,
     status |-> r.status, category |-> r.category]

\* Mutant of order_by_id: ORDER BY id DESC.
RECURSIVE order_by_id_desc(_)
order_by_id_desc(rows) ==
    IF rows = {} THEN <<>>
    ELSE LET last == CHOOSE r \in rows : \A q \in rows : r.id >= q.id
         IN <<last>> \o order_by_id_desc(rows \ {last})

\* ORDER BY id.
RECURSIVE order_by_id(_)
order_by_id(rows) ==
    IF rows = {} THEN <<>>
    ELSE LET first == CHOOSE r \in rows : \A q \in rows : r.id <= q.id
         IN <<first>> \o order_by_id(rows \ {first})

RECURSIVE select_columns(_)
select_columns(rs) ==
    IF rs = <<>> THEN <<>> ELSE <<columns(Head(rs))>> \o select_columns(Tail(rs))

\* SELECT ... FROM tasks WHERE user = ? ORDER BY id; fetchall().
get_tasks(db, user_id) ==
    select_columns(order_by_id({r \in db : r.user = user_id}))

\* What fetchone() returns when no row matches.
NoneRow == [id |-> 0, text |-> <<>>, created_at |-> 0, status |-> "", category |-> ""]

\* Mutant of get_task: WHERE id = ? alone.
get_task_AnyOwner(db, task_id, user_id) ==
    LET hit == {r \in db : r.id = task_id}
    IN IF hit = {} THEN NoneRow ELSE columns(CHOOSE r \in hit : TRUE)

\* SELECT ... FROM tasks WHERE id = ? AND user = ?; fetchone().
get_task(db, task_id, user_id) ==
    LET hit == {r \in db : r.id = task_id /\ r.user = user_id}
    IN IF hit = {} THEN NoneRow ELSE columns(CHOOSE r \in hit : TRUE)

\* Mutant of update_task: WHERE id = ? alone.
update_task_AnyOwner(db, task_id, user_id, status, category) ==
    IF status = None /\ category = None THEN db
    ELSE { IF r.id = task_id
           THEN [r EXCEPT !.status = IF status # None THEN status ELSE @,
                          !.category = IF category # None THEN category ELSE @]
           ELSE r : r \in db }

\* Mutant of update_task: a field that is not supplied is set to its default.
update_task_ResetsOther(db, task_id, user_id, status, category) ==
    IF status = None /\ category = None THEN db
    ELSE { IF r.id = task_id /\ r.user = user_id
           THEN [r EXCEPT !.status = IF status # None THEN status ELSE "Novyj",
                          !.category = IF category # None THEN category ELSE "Nevazhnaya"]
           ELSE r : r \in db }

\* UPDATE tasks SET ... WHERE id = ? AND user = ?, with the SET list built
\* from the arguments that are not None; no statement when both are None.
update_task(db, task_id, user_id, status, category) ==
    IF status = None /\ category = None THEN db
    ELSE { IF r.id = task_id /\ r.user = user_id
           THEN [r EXCEPT !.status = IF status # None THEN status ELSE @,
                          !.category = IF category # None THEN category ELSE @]
           ELSE r : r \in db }

\* str(n) of the integers the model writes into the file.
str(n) == <<"0", "1", "2", "3", "4", "5", "6", "7", "8", "9">>[n + 1]

\* f"tasks_{user_id}.csv"
filename(user_id) == <<"tasks_", str(user_id), ".csv">>

\* writer.writerow of one task: the cells in the order they are passed, the
\* numbers as str() writes them; a cell is the sequence of its tokens.
writerow(t, user_id) ==
    <<<<str(t.id)>>, t.text, <<str(user_id)>>, <<str(t.created_at)>>,
      <<t.status>>, <<t.category>>>>

RECURSIVE writerows(_, _)
writerows(ts, user_id) ==
    IF ts = <<>> THEN <<>>
    ELSE <<writerow(Head(ts), user_id)>> \o writerows(Tail(ts), user_id)

\* Mutant of export_tasks_to_csv: the rows are selected without WHERE user = ?.
export_tasks_to_csv_AllUsers(db, user_id) ==
    <<<<<<"id">>, <<"text">>, <<"user">>, <<"created_at">>, <<"status">>,
        <<"category">>>>>>
    \o writerows(select_columns(order_by_id(db)), user_id)

\* The content export_tasks_to_csv writes: the header row, then one row for
\* each task get_tasks returns.
export_tasks_to_csv(db, user_id) ==
    <<<<<<"id">>, <<"text">>, <<"user">>, <<"created_at">>, <<"status">>,
        <<"category">>>>>>
    \o writerows(get_tasks(db, user_id), user_id)

\* ------------------------------------------------------- the dispatcher
\* Command(c): the first word of the text is the command c.
is_command(text, c) ==
    text # <<>> /\ Head(text) = c /\ (Len(text) = 1 \/ text[2] = " ")

\* The message handlers in registration order; the first whose filter
\* accepts the text handles the message.
message_handler(text) ==
    IF is_command(text, "/start") THEN "cmd_start"
    ELSE IF is_command(text, "/add") THEN "cmd_add"
    ELSE IF text = <<BtnAdd>> THEN "handle_add_task_button"
    ELSE IF is_command(text, "/list") THEN "cmd_list"
    ELSE IF text = <<BtnList>> THEN "handle_list_button"
    ELSE IF is_command(text, "/edit") THEN "cmd_edit"
    ELSE IF text = <<BtnEdit>> THEN "handle_edit_button"
    ELSE IF is_command(text, "/list_csv") THEN "cmd_list_csv"
    ELSE IF text = <<BtnExport>> THEN "handle_export_button"
    ELSE IF text = <<BtnCancel>> THEN "handle_cancel_button"
    ELSE IF text # <<>> THEN "handle_text_message"
    ELSE "unhandled"

\* The callback handlers, routed on the payload's prefix.
callback_handler(data) ==
    CASE data.prefix = "task" -> "process_task_selection"
      [] data.prefix = "status" -> "process_status_change"
      [] data.prefix = "category" -> "process_category_change"
      [] data.prefix = "new_task_status" -> "process_new_task_status"
      [] data.prefix = "new_task_category" -> "process_new_task_category"
      [] data.prefix = "back_to_list" -> "back_to_list"
      [] OTHER -> "unhandled"

\* ------------------------------------------------------------ handlers
Init ==
    /\ tasks = {}
    /\ seq = 0
    /\ user_states = <<>>
    /\ pending_tasks = <<>>
    /\ files = <<>>
    /\ handler = ""
    /\ out = <<>>
    /\ document = <<>>
    /\ pdf_idle
    /\ loop_idle

cmd_start(u, m) ==
    /\ message_handler(m) = "cmd_start"
    /\ handler' = "cmd_start"
    /\ UNCHANGED <<pdf_vars, loop_vars>>
    /\ document' = <<>>
    /\ UNCHANGED files
    /\ out' = <<"welcome">>
    /\ UNCHANGED <<tasks, seq, user_states, pending_tasks>>

cmd_add(u, m) ==
    /\ message_handler(m) = "cmd_add"
    /\ handler' = "cmd_add"
    /\ UNCHANGED <<pdf_vars, loop_vars>>
    /\ document' = <<>>
    /\ UNCHANGED files
    /\ LET task_text == strip(replace_first(m, "/add"))
       IN IF task_text = <<>>
          THEN /\ pending_tasks' = pop(pending_tasks, u)
               /\ out' = <<"need_text">>
               /\ UNCHANGED user_states
          ELSE /\ pending_tasks' = put(pop(pending_tasks, u), u, task_text)
               /\ user_states' = put(user_states, u, StrState("selecting_status"))
               /\ out' = <<"choose_status">>
    /\ UNCHANGED <<tasks, seq>>

handle_add_task_button(u, m) ==
    /\ message_handler(m) = "handle_add_task_button"
    /\ handler' = "handle_add_task_button"
    /\ UNCHANGED <<pdf_vars, loop_vars>>
    /\ document' = <<>>
    /\ UNCHANGED files
    /\ pending_tasks' = pop(pending_tasks, u)
    /\ user_states' = put(user_states, u, StrState("waiting_for_task"))
    /\ out' = <<"enter_text">>
    /\ UNCHANGED <<tasks, seq>>

\* Mutant of cmd_list_body: user_states is not reset.
cmd_list_body_KeepsState(u, us, pt) ==
    /\ user_states' = us
    /\ pending_tasks' = pop(pt, u)
    /\ out' = IF get_tasks(tasks, u) = <<>> THEN <<"no_tasks">> ELSE <<"task_list">>
    /\ UNCHANGED <<tasks, seq>>

\* The body of cmd_list, which handle_list_button runs too.
cmd_list_body(u, us, pt) ==
    /\ user_states' = pop(us, u)
    /\ pending_tasks' = pop(pt, u)
    /\ out' = IF get_tasks(tasks, u) = <<>> THEN <<"no_tasks">> ELSE <<"task_list">>
    /\ UNCHANGED <<tasks, seq>>

cmd_list(u, m) ==
    /\ message_handler(m) = "cmd_list"
    /\ handler' = "cmd_list"
    /\ UNCHANGED <<pdf_vars, loop_vars>>
    /\ document' = <<>>
    /\ UNCHANGED files
    /\ cmd_list_body(u, user_states, pending_tasks)

handle_list_button(u, m) ==
    /\ message_handler(m) = "handle_list_button"
    /\ handler' = "handle_list_button"
    /\ UNCHANGED <<pdf_vars, loop_vars>>
    /\ document' = <<>>
    /\ UNCHANGED files
    /\ cmd_list_body(u, pop(user_states, u), pop(pending_tasks, u))

\* The body of cmd_edit, which handle_edit_button runs too.
cmd_edit_body(u, us, pt) ==
    /\ user_states' = pop(us, u)
    /\ pending_tasks' = pop(pt, u)
    /\ out' = IF get_tasks(tasks, u) = <<>> THEN <<"no_tasks_to_edit">> ELSE <<"edit_list">>
    /\ UNCHANGED <<tasks, seq>>

cmd_edit(u, m) ==
    /\ message_handler(m) = "cmd_edit"
    /\ handler' = "cmd_edit"
    /\ UNCHANGED <<pdf_vars, loop_vars>>
    /\ document' = <<>>
    /\ UNCHANGED files
    /\ cmd_edit_body(u, user_states, pending_tasks)

handle_edit_button(u, m) ==
    /\ message_handler(m) = "handle_edit_button"
    /\ handler' = "handle_edit_button"
    /\ UNCHANGED <<pdf_vars, loop_vars>>
    /\ document' = <<>>
    /\ UNCHANGED files
    /\ cmd_edit_body(u, pop(user_states, u), pop(pending_tasks, u))

\* What show_task_edit_menu sends for a task of the acting user.
show_task_edit_menu(db, u, task_id) ==
    IF get_task(db, task_id, u) = NoneRow THEN <<"task_not_found">> ELSE <<"detail_view">>

process_task_selection(u, d) ==
    /\ callback_handler(d) = "process_task_selection"
    /\ handler' = "process_task_selection"
    /\ UNCHANGED <<pdf_vars, loop_vars>>
    /\ document' = <<>>
    /\ UNCHANGED files
    /\ out' = show_task_edit_menu(tasks, u, d.num) \o <<"ack">>
    /\ UNCHANGED <<tasks, seq, user_states, pending_tasks>>

process_status_change(u, d) ==
    /\ callback_handler(d) = "process_status_change"
    /\ handler' = "process_status_change"
    /\ UNCHANGED <<pdf_vars, loop_vars>>
    /\ document' = <<>>
    /\ UNCHANGED files
    /\ IF get_task(tasks, d.num, u) = NoneRow
       THEN /\ out' = <<"task_not_found">>
            /\ UNCHANGED tasks
       ELSE /\ tasks' = update_task(tasks, d.num, u, d.val, None)
            /\ out' = <<"status_changed">> \o show_task_edit_menu(tasks', u, d.num)
    /\ UNCHANGED <<seq, user_states, pending_tasks>>

process_category_change(u, d) ==
    /\ callback_handler(d) = "process_category_change"
    /\ handler' = "process_category_change"
    /\ UNCHANGED <<pdf_vars, loop_vars>>
    /\ document' = <<>>
    /\ UNCHANGED files
    /\ IF get_task(tasks, d.num, u) = NoneRow
       THEN /\ out' = <<"task_not_found">>
            /\ UNCHANGED tasks
       ELSE /\ tasks' = update_task(tasks, d.num, u, None, d.val)
            /\ out' = <<"category_changed">> \o show_task_edit_menu(tasks', u, d.num)
    /\ UNCHANGED <<seq, user_states, pending_tasks>>

\* Mutant of process_new_task_status: the acting user is not compared with
\* the embedded user id.
process_new_task_status_NoOwnerCheck(u, d) ==
    /\ callback_handler(d) = "process_new_task_status"
    /\ handler' = "process_new_task_status"
    /\ UNCHANGED <<pdf_vars, loop_vars>>
    /\ document' = <<>>
    /\ UNCHANGED files
    /\ LET user_id == d.num
           selected_status == d.val
       IN IF user_id \notin DOMAIN pending_tasks \/ pending_tasks[user_id] = <<>>
          THEN /\ out' = <<"text_not_found", "flow_error">>
               /\ user_states' = pop(user_states, user_id)
               /\ UNCHANGED pending_tasks
          ELSE /\ user_states' =
                      put(user_states, user_id,
                          DictState(selected_status, pending_tasks[user_id]))
               /\ out' = <<"choose_category", "status_ack">>
               /\ UNCHANGED pending_tasks
    /\ UNCHANGED <<tasks, seq>>

process_new_task_status(u, d) ==
    /\ callback_handler(d) = "process_new_task_status"
    /\ handler' = "process_new_task_status"
    /\ UNCHANGED <<pdf_vars, loop_vars>>
    /\ document' = <<>>
    /\ UNCHANGED files
    /\ LET user_id == d.num
           selected_status == d.val
       IN IF u # user_id
          THEN /\ out' = <<"not_your_task">>
               /\ UNCHANGED <<user_states, pending_tasks>>
          ELSE IF user_id \notin DOMAIN pending_tasks \/ pending_tasks[user_id] = <<>>
          THEN /\ out' = <<"text_not_found", "flow_error">>
               /\ user_states' = pop(user_states, user_id)
               /\ UNCHANGED pending_tasks
          ELSE /\ user_states' =
                      put(user_states, user_id,
                          DictState(selected_status, pending_tasks[user_id]))
               /\ out' = <<"choose_category", "status_ack">>
               /\ UNCHANGED pending_tasks
    /\ UNCHANGED <<tasks, seq>>

\* Mutant of process_new_task_category: the record is stored but the session
\* is not discarded in the same step.
process_new_task_category_DiscardsLater(u, d) ==
    /\ callback_handler(d) = "process_new_task_category"
    /\ handler' = "process_new_task_category"
    /\ UNCHANGED <<pdf_vars, loop_vars>>
    /\ document' = <<>>
    /\ UNCHANGED files
    /\ LET user_id == d.num
           selected_category == d.val
       IN IF u # user_id
          THEN /\ out' = <<"not_your_task">>
               /\ UNCHANGED <<tasks, seq, user_states, pending_tasks>>
          ELSE IF user_id \notin DOMAIN user_states \/ user_states[user_id].kind # "dict"
          THEN /\ out' = <<"data_not_found", "flow_error">>
               /\ user_states' = pop(user_states, user_id)
               /\ pending_tasks' = pop(pending_tasks, user_id)
               /\ UNCHANGED <<tasks, seq>>
          ELSE /\ seq < MaxTasks
               /\ tasks' = add_task(tasks, seq, user_states[user_id].text, user_id,
                                    user_states[user_id].status, selected_category)
               /\ seq' = seq + 1
               /\ UNCHANGED <<user_states, pending_tasks>>
               /\ out' = <<"task_added", "added_ack", "what_next">>

\* Mutant of process_new_task_category: a callback that finds no status and
\* text pair leaves the session as it is.
process_new_task_category_KeepsSession(u, d) ==
    /\ callback_handler(d) = "process_new_task_category"
    /\ handler' = "process_new_task_category"
    /\ UNCHANGED <<pdf_vars, loop_vars>>
    /\ document' = <<>>
    /\ UNCHANGED files
    /\ LET user_id == d.num
           selected_category == d.val
       IN IF u # user_id
          THEN /\ out' = <<"not_your_task">>
               /\ UNCHANGED <<tasks, seq, user_states, pending_tasks>>
          ELSE IF user_id \notin DOMAIN user_states \/ user_states[user_id].kind # "dict"
          THEN /\ out' = <<"data_not_found", "flow_error">>
               /\ UNCHANGED <<tasks, seq, user_states, pending_tasks>>
          ELSE /\ seq < MaxTasks
               /\ tasks' = add_task(tasks, seq, user_states[user_id].text, user_id,
                                    user_states[user_id].status, selected_category)
               /\ seq' = seq + 1
               /\ user_states' = pop(user_states, user_id)
               /\ pending_tasks' = pop(pending_tasks, user_id)
               /\ out' = <<"task_added", "added_ack", "what_next">>

process_new_task_category(u, d) ==
    /\ callback_handler(d) = "process_new_task_category"
    /\ handler' = "process_new_task_category"
    /\ UNCHANGED <<pdf_vars, loop_vars>>
    /\ document' = <<>>
    /\ UNCHANGED files
    /\ LET user_id == d.num
           selected_category == d.val
       IN IF u # user_id
          THEN /\ out' = <<"not_your_task">>
               /\ UNCHANGED <<tasks, seq, user_states, pending_tasks>>
          ELSE IF user_id \notin DOMAIN user_states \/ user_states[user_id].kind # "dict"
          THEN /\ out' = <<"data_not_found", "flow_error">>
               /\ user_states' = pop(user_states, user_id)
               /\ pending_tasks' = pop(pending_tasks, user_id)
               /\ UNCHANGED <<tasks, seq>>
          ELSE /\ seq < MaxTasks
               /\ tasks' = add_task(tasks, seq, user_states[user_id].text, user_id,
                                    user_states[user_id].status, selected_category)
               /\ seq' = seq + 1
               /\ user_states' = pop(user_states, user_id)
               /\ pending_tasks' = pop(pending_tasks, user_id)
               /\ out' = <<"task_added", "added_ack", "what_next">>

back_to_list(u, d) ==
    /\ callback_handler(d) = "back_to_list"
    /\ handler' = "back_to_list"
    /\ UNCHANGED <<pdf_vars, loop_vars>>
    /\ document' = <<>>
    /\ UNCHANGED files
    /\ out' = IF get_tasks(tasks, u) = <<>>
              THEN <<"no_tasks_to_edit", "ack">>
              ELSE <<"edit_list", "ack">>
    /\ UNCHANGED <<tasks, seq, user_states, pending_tasks>>

\* The exception points of cmd_list_csv's try block: none raises, open()
\* raises, a write into the open file raises, answer_document raises,
\* os.remove raises.
Faults == {"none", "open", "write", "send", "remove"}

\* The exception points that leave the working directory as it was.
QuietFaults == {"none", "open"}

\* Mutant of export_try: the file is removed in a finally clause, whether or
\* not the delivery succeeded.
export_try_RemovesAlways(u, fault) ==
    LET filepath == filename(u)
        content == export_tasks_to_csv(tasks, u)
    IN CASE fault = "open" ->
              /\ UNCHANGED files
              /\ document' = <<>>
              /\ out' = <<"export_error">>
         [] fault \in {"write", "send"} ->
              /\ files' = pop(files, filepath)
              /\ document' = <<>>
              /\ out' = <<"export_error">>
         [] fault = "remove" ->
              /\ files' = put(files, filepath, content)
              /\ document' = content
              /\ out' = <<"document", "export_error">>
         [] fault = "none" ->
              /\ files' = pop(files, filepath)
              /\ document' = content
              /\ out' = <<"document">>

\* What the try block of cmd_list_csv does when `fault` raises.  A write that
\* raises leaves the rows written so far in the file.
export_try(u, fault) ==
    LET filepath == filename(u)
        content == export_tasks_to_csv(tasks, u)
    IN CASE fault = "open" ->
              /\ UNCHANGED files
              /\ document' = <<>>
              /\ out' = <<"export_error">>
         [] fault = "write" ->
              /\ \E k \in 0..(Len(content) - 1) :
                    files' = put(files, filepath, SubSeq(content, 1, k))
              /\ document' = <<>>
              /\ out' = <<"export_error">>
         [] fault = "send" ->
              /\ files' = put(files, filepath, content)
              /\ document' = <<>>
              /\ out' = <<"export_error">>
         [] fault = "remove" ->
              /\ files' = put(files, filepath, content)
              /\ document' = content
              /\ out' = <<"document", "export_error">>
         [] fault = "none" ->
              /\ files' = pop(files, filepath)
              /\ document' = content
              /\ out' = <<"document">>

\* The body of cmd_list_csv, which handle_export_button runs too; `fault` is
\* the exception point that raises while it runs.
cmd_list_csv_body(u, us, pt, fault) ==
    /\ user_states' = pop(us, u)
    /\ pending_tasks' = pop(pt, u)
    /\ IF get_tasks(tasks, u) = <<>>
       THEN /\ out' = <<"no_tasks_to_export">>
            /\ document' = <<>>
            /\ UNCHANGED files
       ELSE export_try(u, fault)
    /\ UNCHANGED <<tasks, seq>>

cmd_list_csv(u, m, fault) ==
    /\ message_handler(m) = "cmd_list_csv"
    /\ handler' = "cmd_list_csv"
    /\ UNCHANGED <<pdf_vars, loop_vars>>
    /\ cmd_list_csv_body(u, user_states, pending_tasks, fault)

handle_export_button(u, m, fault) ==
    /\ message_handler(m) = "handle_export_button"
    /\ handler' = "handle_export_button"
    /\ UNCHANGED <<pdf_vars, loop_vars>>
    /\ cmd_list_csv_body(u, pop(user_states, u), pop(pending_tasks, u), fault)

\* Mutant of handle_cancel_button: the draft text is not dropped.
handle_cancel_button_KeepsDraft(u, m) ==
    /\ message_handler(m) = "handle_cancel_button"
    /\ handler' = "handle_cancel_button"
    /\ UNCHANGED <<pdf_vars, loop_vars>>
    /\ document' = <<>>
    /\ UNCHANGED files
    /\ user_states' = pop(user_states, u)
    /\ UNCHANGED pending_tasks
    /\ out' = <<"cancelled">>
    /\ UNCHANGED <<tasks, seq>>

handle_cancel_button(u, m) ==
    /\ message_handler(m) = "handle_cancel_button"
    /\ handler' = "handle_cancel_button"
    /\ UNCHANGED <<pdf_vars, loop_vars>>
    /\ document' = <<>>
    /\ UNCHANGED files
    /\ user_states' = pop(user_states, u)
    /\ pending_tasks' = pop(pending_tasks, u)
    /\ out' = <<"cancelled">>
    /\ UNCHANGED <<tasks, seq>>

\* Mutant of handle_text_message: the text is stored but the stage is left
\* at waiting_for_task.
handle_text_message_KeepsStage(u, m) ==
    /\ message_handler(m) = "handle_text_message"
    /\ handler' = "handle_text_message"
    /\ UNCHANGED <<pdf_vars, loop_vars>>
    /\ document' = <<>>
    /\ UNCHANGED files
    /\ IF u \in DOMAIN user_states /\ user_states[u] = StrState("waiting_for_task")
       THEN LET task_text == strip(m)
            IN IF task_text # <<>>
               THEN /\ pending_tasks' = put(pending_tasks, u, task_text)
                    /\ out' = <<"choose_status">>
                    /\ UNCHANGED user_states
               ELSE /\ out' = <<"empty_text">>
                    /\ UNCHANGED <<user_states, pending_tasks>>
       ELSE /\ out' = <<"hint">>
            /\ UNCHANGED <<user_states, pending_tasks>>
    /\ UNCHANGED <<tasks, seq>>

handle_text_message(u, m) ==
    /\ message_handler(m) = "handle_text_message"
    /\ handler' = "handle_text_message"
    /\ UNCHANGED <<pdf_vars, loop_vars>>
    /\ document' = <<>>
    /\ UNCHANGED files
    /\ IF u \in DOMAIN user_states /\ user_states[u] = StrState("waiting_for_task")
       THEN LET task_text == strip(m)
            IN IF task_text # <<>>
               THEN /\ pending_tasks' = put(pending_tasks, u, task_text)
                    /\ user_states' = put(user_states, u, StrState("selecting_status"))
                    /\ out' = <<"choose_status">>
               ELSE /\ out' = <<"empty_text">>
                    /\ UNCHANGED <<user_states, pending_tasks>>
       ELSE /\ out' = <<"hint">>
            /\ UNCHANGED <<user_states, pending_tasks>>
    /\ UNCHANGED <<tasks, seq>>

Next ==
    \E u \in Users :
        \/ \E m \in Messages :
            \/ cmd_start(u, m)
            \/ cmd_add(u, m)
            \/ handle_add_task_button(u, m)
            \/ cmd_list(u, m)
            \/ handle_list_button(u, m)
            \/ cmd_edit(u, m)
            \/ handle_edit_button(u, m)
            \/ \E fault \in QuietFaults : cmd_list_csv(u, m, fault)
            \/ \E fault \in QuietFaults : handle_export_button(u, m, fault)
            \/ handle_cancel_button(u, m)
            \/ handle_text_message(u, m)
        \/ \E d \in CallbackData :
            \/ process_task_selection(u, d)
            \/ process_status_change(u, d)
            \/ process_category_change(u, d)
            \/ process_new_task_status(u, d)
            \/ process_new_task_category(u, d)
            \/ back_to_list(u, d)

Spec == Init /\ [][Next]_vars

\* -------------------------------------------------- the session, abstractly
\* The stage of user u's creation flow, read off user_states.
stage(us, u) ==
    IF u \notin DOMAIN us THEN "idle"
    ELSE IF us[u].kind = "waiting_for_task" THEN "awaiting_task_text"
    ELSE IF us[u].kind = "selecting_status" THEN "selecting_status"
    ELSE "selecting_category"

\* The draft text held for user u, <<>> when none is held.
draft(pt, u) == IF u \in DOMAIN pt THEN pt[u] ELSE <<>>

\* User u has no session: stage idle and no draft.
no_session(us, pt, u) == stage(us, u) = "idle" /\ u \notin DOMAIN pt

\* The words of a text between its leading and its trailing blanks, said
\* without strip: the piece that has only blanks on either side and no
\* blank at either end.
Trimmed(t) ==
    CHOOSE w \in {SubSeq(t, i, j) : i \in 1..(Len(t) + 1), j \in 0..Len(t)} :
        /\ w = <<>> \/ (w[1] # " " /\ w[Len(w)] # " ")
        /\ \E i \in 1..(Len(t) + 1) :
              /\ \A k \in 1..(i - 1) : t[k] = " "
              /\ \A k \in (i + Len(w))..Len(t) : t[k] = " "
              /\ w = SubSeq(t, i, i + Len(w) - 1)

\* The text typed after the command word of a command message.
ArgText(m) == Trimmed(Tail(m))

\* ------------------------------------------------------------- claims

\* The payloads of the creation flow's two callbacks, and the add-commands.
StatusChoice(uid, S) == [prefix |-> "new_task_status", num |-> uid, val |-> S]
CategoryChoice(uid, C) == [prefix |-> "new_task_category", num |-> uid, val |-> C]
AddCommands == {m \in Messages : Head(m) = "/add"}

\* C1: creation flow.  For a user u in idle, an add-command with non-empty
\* text T leads to selecting_status with draft T; from there a status
\* callback S of u leads to selecting_category carrying S and T; from there a
\* category callback C of u adds exactly the one record (T, u, S, C) and
\* leaves u idle with no draft.
C1_CreationFlow ==
    [][/\ handler' = "cmd_add"
          => \A u \in Users :
                stage(user_states, u) = "idle"
                => \A m \in AddCommands :
                      (cmd_add(u, m) /\ ArgText(m) # <<>>)
                      => /\ stage(user_states', u) = "selecting_status"
                         /\ draft(pending_tasks', u) = ArgText(m)
                         /\ tasks' = tasks
       /\ handler' = "process_new_task_status"
          => \A u \in Users :
                (stage(user_states, u) = "selecting_status" /\ draft(pending_tasks, u) # <<>>)
                => \A S \in Statuses :
                      process_new_task_status(u, StatusChoice(u, S))
                      => /\ stage(user_states', u) = "selecting_category"
                         /\ user_states'[u].text = draft(pending_tasks, u)
                         /\ user_states'[u].status = S
                         /\ draft(pending_tasks', u) = draft(pending_tasks, u)
                         /\ tasks' = tasks
       /\ handler' = "process_new_task_category"
          => \A u \in Users :
                (/\ stage(user_states, u) = "selecting_category"
                 /\ draft(pending_tasks, u) = user_states[u].text)
                => \A C \in Categories :
                      process_new_task_category(u, CategoryChoice(u, C))
                      => /\ no_session(user_states', pending_tasks', u)
                         /\ Cardinality(tasks') = Cardinality(tasks) + 1
                         /\ \E r \in tasks' \ tasks :
                               /\ tasks' = tasks \cup {r}
                               /\ r.text = user_states[u].text
                               /\ r.user = u
                               /\ r.status = user_states[u].status
                               /\ r.category = C
      ]_vars

\* C1 witness: a flow has just ended: the record is stored and its owner idle.
C1_Witness ==
    /\ handler = "process_new_task_category"
    /\ out = <<"task_added", "added_ack", "what_next">>
    /\ \E r \in tasks :
          /\ r.id = seq /\ r.text = <<"a">> /\ r.status = "Vypolnena"
          /\ r.category = "Vazhnaya"
          /\ no_session(user_states, pending_tasks, r.user)

\* C2: a status or category callback pressed by a user other than the one
\* embedded in its payload is answered with the "not your task" notice and
\* changes neither the records nor any user's stage or draft.
C2_ForeignCallbackRejected ==
    [][/\ handler' = "process_new_task_status"
          => \A u \in Users : \A v \in Users \ {u} : \A S \in Statuses :
                process_new_task_status(u, StatusChoice(v, S))
                => /\ out' = <<"not_your_task">>
                   /\ UNCHANGED <<tasks, user_states, pending_tasks>>
       /\ handler' = "process_new_task_category"
          => \A u \in Users : \A v \in Users \ {u} : \A C \in Categories :
                process_new_task_category(u, CategoryChoice(v, C))
                => /\ out' = <<"not_your_task">>
                   /\ UNCHANGED <<tasks, user_states, pending_tasks>>
      ]_vars

\* C2 witness: the notice was sent while a user's flow waits for its
\* category, so a foreign callback had something to complete.
C2_Witness ==
    /\ handler = "process_new_task_category"
    /\ out = <<"not_your_task">>
    /\ \E v \in Users : stage(user_states, v) = "selecting_category"

\* The ids of a listing, in its order.
RECURSIVE ids_of(_)
ids_of(rows) == IF rows = <<>> THEN <<>> ELSE <<Head(rows).id>> \o ids_of(Tail(rows))

\* C3: list(owner) starts empty, grows by exactly the record added when a
\* record is added for that owner (at its end), keeps its ids and their order
\* across every other step, ascends in id, and holds rows of that owner only.
C3_ListIsOwnInsertions ==
    /\ [](\A u \in Users :
            LET listed == get_tasks(tasks, u)
            IN /\ \A i \in 1..Len(listed) :
                     \E r \in tasks : r.user = u /\ columns(r) = listed[i]
               /\ \A r \in tasks : r.user = u => \E i \in 1..Len(listed) : listed[i].id = r.id
               /\ \A i \in 1..(Len(listed) - 1) : listed[i].id < listed[i + 1].id)
    /\ [][tasks' # tasks
          => \A u \in Users :
                LET before == get_tasks(tasks, u)
                    after == get_tasks(tasks', u)
                IN IF seq' # seq
                   THEN \E r \in tasks' \ tasks :
                           after = IF r.user = u THEN Append(before, columns(r)) ELSE before
                   ELSE ids_of(after) = ids_of(before)
         ]_vars

\* C3 witness: a user who added two records has just been shown the list.
C3_Witness ==
    /\ handler = "cmd_list"
    /\ out = <<"task_list">>
    /\ \E u \in Users : Len(get_tasks(tasks, u)) = 2

\* C4: get(id, owner) is absent for an id of another owner, and what get and
\* list return to an owner does not change when other owners' records are
\* taken out of the store: a foreign id reads exactly like a missing one.
C4_ForeignIdLooksMissing ==
    \A u \in Users :
        LET foreign == {r \in tasks : r.user # u}
        IN /\ \A r \in foreign : get_task(tasks, r.id, u) = NoneRow
           /\ \A X \in SUBSET foreign :
                 /\ get_tasks(tasks \ X, u) = get_tasks(tasks, u)
                 /\ \A id \in TaskIds : get_task(tasks \ X, id, u) = get_task(tasks, id, u)

\* C4 witness: a user opened a task id and got "not found" while the store
\* holds another owner's record and the user's own.
C4_Witness ==
    /\ handler = "process_task_selection"
    /\ out = <<"task_not_found", "ack">>
    /\ \E r \in tasks, q \in tasks : r.user # q.user

\* C5: update(id, owner, status, category) keeps every record's id, text,
\* owner and created_at and the number of records; on the record matching
\* (id, owner) a supplied status or category replaces the old one and an
\* omitted one is kept; every other record is untouched; with no matching
\* record, or with neither field supplied, the store is unchanged.
C5_UpdateFrame ==
    \A id \in TaskIds : \A u \in Users :
    \A S \in Statuses \cup {None} : \A C \in Categories \cup {None} :
        LET new == update_task(tasks, id, u, S, C)
            match == {r \in tasks : r.id = id /\ r.user = u}
        IN /\ (match = {} \/ (S = None /\ C = None)) => new = tasks
           /\ Cardinality(new) = Cardinality(tasks)
           /\ \A r \in tasks \ match : r \in new
           /\ \A r \in match :
                 \E q \in new :
                    /\ q.id = r.id /\ q.text = r.text /\ q.user = r.user
                    /\ q.created_at = r.created_at
                    /\ q.status = (IF S = None THEN r.status ELSE S)
                    /\ q.category = (IF C = None THEN r.category ELSE C)

\* C5 witness: an update has changed a status while the store also holds a
\* record of another owner, so matched and mismatched pairs both exist.
C5_Witness ==
    /\ handler = "process_status_change"
    /\ out = <<"status_changed", "detail_view">>
    /\ \E r \in tasks, q \in tasks :
          r.user # q.user /\ r.status = "Vypolnena" /\ q.status = "Novyj"

\* The inputs of the handlers that are no part of the creation flow.
OpenTask(id) == [prefix |-> "task", num |-> id, val |-> ""]
SetStatus(id, S) == [prefix |-> "status", num |-> id, val |-> S]
SetCategory(id, C) == [prefix |-> "category", num |-> id, val |-> C]
BackToList == [prefix |-> "back_to_list", num |-> 0, val |-> ""]

mid_flow(us, u) ==
    stage(us, u) \in {"awaiting_task_text", "selecting_status", "selecting_category"}

\* The handlers of the list, edit and export commands and buttons, and a
\* step in which user u sends one of those.
ListEditExportHandlers ==
    {"cmd_list", "handle_list_button", "cmd_edit", "handle_edit_button",
     "cmd_list_csv", "handle_export_button"}

ListEditExport(u) ==
    \/ cmd_list(u, <<"/list">>) \/ handle_list_button(u, <<BtnList>>)
    \/ cmd_edit(u, <<"/edit">>) \/ handle_edit_button(u, <<BtnEdit>>)
    \/ \E fault \in Faults :
          \/ cmd_list_csv(u, <<"/list_csv">>, fault)
          \/ handle_export_button(u, <<BtnExport>>, fault)

\* The handlers of /start and of the inline buttons of the edit flow, and a
\* step in which user u sends one of those.
StartOrEditNavigationHandlers ==
    {"cmd_start", "back_to_list", "process_task_selection",
     "process_status_change", "process_category_change"}

StartOrEditNavigation(u) ==
    \/ cmd_start(u, <<"/start">>)
    \/ back_to_list(u, BackToList)
    \/ \E id \in TaskIds :
          \/ process_task_selection(u, OpenTask(id))
          \/ \E S \in Statuses : process_status_change(u, SetStatus(id, S))
          \/ \E C \in Categories : process_category_change(u, SetCategory(id, C))

\* C6 as stated: every command or button outside the creation flow, /start
\* and the edit-navigation buttons included, that a mid-flow user sends
\* leaves that user idle with no draft.
C6_Original ==
    [][handler' \in ListEditExportHandlers \cup StartOrEditNavigationHandlers
       => \A u \in Users :
             mid_flow(user_states, u)
             => ((ListEditExport(u) \/ StartOrEditNavigation(u))
                 => no_session(user_states', pending_tasks', u))
      ]_vars

\* C6 amended: a list, edit or export command or button of a mid-flow user
\* leaves that user idle with no draft, while /start and the inline
\* edit-navigation buttons leave the stage and the draft of a mid-flow user
\* as they were.
C6_Amended ==
    [][/\ handler' \in ListEditExportHandlers
          => \A u \in Users :
                (mid_flow(user_states, u) /\ ListEditExport(u))
                => no_session(user_states', pending_tasks', u)
       /\ handler' \in StartOrEditNavigationHandlers
          => \A u \in Users :
                (mid_flow(user_states, u) /\ StartOrEditNavigation(u))
                => UNCHANGED <<user_states, pending_tasks>>
      ]_vars

\* C6 witness: /start was answered and a user is still mid-flow with the
\* draft held.
C6_Witness ==
    /\ handler = "cmd_start"
    /\ \E u \in Users : stage(user_states, u) = "selecting_status" /\ u \in DOMAIN pending_tasks

C8_IdsUniqueRecordsKept ==
    /\ [](\A r \in tasks : \A q \in tasks : r.id = q.id => r = q)
    /\ [][tasks' # tasks
          => \A r \in tasks :
                \E q \in tasks' :
                   /\ q.id = r.id /\ q.user = r.user /\ q.text = r.text
                   /\ q.created_at = r.created_at
         ]_vars

\* C8 witness: two records of different owners, one of them just edited.
C8_Witness ==
    /\ handler = "process_category_change"
    /\ out = <<"category_changed", "detail_view">>
    /\ \E r \in tasks, q \in tasks : r.id # q.id /\ r.user # q.user

\* The plain texts among the messages: no command word, no button label.
TextMessages == {m \in Messages : \A i \in 1..Len(m) : m[i] \in {" ", "a"}}

\* C9: no stored record has an empty text; an add-command whose text is
\* missing or blank, sent from idle, is answered with the "need text" notice
\* and leaves the user idle with no draft; a blank text sent in
\* awaiting_task_text is answered with the "empty text" notice and leaves the
\* stage and the draft as they were; neither changes the records.
C9_NoEmptyText ==
    /\ [](\A r \in tasks : r.text # <<>>)
    /\ [][/\ handler' = "cmd_add"
             => \A u \in Users :
                   stage(user_states, u) = "idle"
                   => \A m \in AddCommands :
                         (cmd_add(u, m) /\ ArgText(m) = <<>>)
                         => /\ out' = <<"need_text">>
                            /\ no_session(user_states', pending_tasks', u)
                            /\ tasks' = tasks
          /\ handler' = "handle_text_message"
             => \A u \in Users :
                   stage(user_states, u) = "awaiting_task_text"
                   => \A m \in TextMessages :
                         (handle_text_message(u, m) /\ Trimmed(m) = <<>>)
                         => /\ out' = <<"empty_text">>
                            /\ stage(user_states', u) = "awaiting_task_text"
                            /\ pending_tasks' = pending_tasks
                            /\ tasks' = tasks
         ]_vars

\* C9 witness: a blank text was refused in awaiting_task_text.
C9_Witness ==
    /\ handler = "handle_text_message"
    /\ out = <<"empty_text">>
    /\ \E u \in Users : stage(user_states, u) = "awaiting_task_text"

\* User u owns a record with this id.
owns(db, u, id) == \E r \in db : r.id = id /\ r.user = u

\* C10: an edit-flow callback of user u for a task id that u does not own,
\* be it missing or another owner's, is answered with the one "not found"
\* notice and changes nothing; for a task of u a status toggle replaces that
\* record's status and a category toggle its category, nothing else in the
\* store, and neither touches any stage or draft.
C10_EditCallbacks ==
    [][/\ handler' = "process_task_selection"
          => \A u \in Users : \A id \in TaskIds :
                (~owns(tasks, u, id) /\ process_task_selection(u, OpenTask(id)))
                => (out' = <<"task_not_found", "ack">> /\ tasks' = tasks)
       /\ handler' = "process_status_change"
          => \A u \in Users : \A id \in TaskIds : \A S \in Statuses :
                process_status_change(u, SetStatus(id, S))
                => IF owns(tasks, u, id)
                   THEN /\ tasks' = {IF r.id = id THEN [r EXCEPT !.status = S] ELSE r :
                                        r \in tasks}
                        /\ UNCHANGED <<user_states, pending_tasks, seq>>
                   ELSE out' = <<"task_not_found">> /\ tasks' = tasks
       /\ handler' = "process_category_change"
          => \A u \in Users : \A id \in TaskIds : \A C \in Categories :
                process_category_change(u, SetCategory(id, C))
                => IF owns(tasks, u, id)
                   THEN /\ tasks' = {IF r.id = id THEN [r EXCEPT !.category = C] ELSE r :
                                        r \in tasks}
                        /\ UNCHANGED <<user_states, pending_tasks, seq>>
                   ELSE out' = <<"task_not_found">> /\ tasks' = tasks
      ]_vars

\* C10 witness: a status toggle was refused with "not found" while the
\* store holds only a record of another owner and an id is still unused.
C10_Witness ==
    /\ handler = "process_status_change"
    /\ out = <<"task_not_found">>
    /\ Cardinality(tasks) = 1
    /\ \E u \in Users : \A r \in tasks : r.user # u

\* A text message m of user u, handled by whichever handler it is routed to.
text_message(u, m) ==
    \/ cmd_start(u, m) \/ cmd_add(u, m) \/ handle_add_task_button(u, m)
    \/ cmd_list(u, m) \/ handle_list_button(u, m)
    \/ cmd_edit(u, m) \/ handle_edit_button(u, m)
    \/ \E fault \in Faults : cmd_list_csv(u, m, fault) \/ handle_export_button(u, m, fault)
    \/ handle_cancel_button(u, m) \/ handle_text_message(u, m)

\* C11 as stated: in awaiting_task_text every non-empty text message of the
\* user, whatever its content, creates the draft holding that text trimmed
\* and moves the stage to selecting_status.
C11_Original ==
    [][\A u \in Users :
          stage(user_states, u) = "awaiting_task_text"
          => \A m \in Messages :
                (m # <<>> /\ text_message(u, m))
                => /\ stage(user_states', u) = "selecting_status"
                   /\ draft(pending_tasks', u) = Trimmed(m)
      ]_vars

\* C11: in awaiting_task_text a text message of the user that is neither a
\* command nor a menu-button label and is not blank creates the draft holding
\* exactly that text trimmed and moves the stage to selecting_status, storing
\* no record.
C11_Amended ==
    [][handler' = "handle_text_message"
       => \A u \in Users :
             stage(user_states, u) = "awaiting_task_text"
             => \A m \in Messages :
                   (/\ message_handler(m) = "handle_text_message"
                    /\ Trimmed(m) # <<>>
                    /\ text_message(u, m))
                   => /\ stage(user_states', u) = "selecting_status"
                      /\ draft(pending_tasks', u) = Trimmed(m)
                      /\ tasks' = tasks
      ]_vars

\* C11 witness: a free text was taken as the draft of a user who was asked
\* for it, while the other user is mid-flow too.
C11_Witness ==
    /\ handler = "handle_text_message"
    /\ out = <<"choose_status">>
    /\ \E u \in Users :
          /\ stage(user_states, u) = "selecting_status"
          /\ draft(pending_tasks, u) = <<"a">>
          /\ \E v \in Users \ {u} : stage(user_states, v) = "awaiting_task_text"

\* ------------------------------------------------ the export and the disk
\* The bot as driven by add-commands, the creation callbacks and export
\* requests, with any of the export's exception points raising.
NextExport ==
    \E u \in Users :
        \/ cmd_add(u, <<"/add", " ", "a", " ">>)
        \/ \E S \in Statuses : process_new_task_status(u, StatusChoice(u, S))
        \/ \E C \in Categories : process_new_task_category(u, CategoryChoice(u, C))
        \/ \E fault \in Faults : cmd_list_csv(u, <<"/list_csv">>, fault)
        \/ \E fault \in Faults : handle_export_button(u, <<BtnExport>>, fault)

SpecExport == Init /\ [][NextExport]_vars

ExportHandlers == {"cmd_list_csv", "handle_export_button"}

\* An export request of user u during which `fault` raises.
Export(u, fault) ==
    \/ cmd_list_csv(u, <<"/list_csv">>, fault)
    \/ handle_export_button(u, <<BtnExport>>, fault)

\* The header row, and the row of record r in a file written for user u.
HeaderRow ==
    <<<<"id">>, <<"text">>, <<"user">>, <<"created_at">>, <<"status">>, <<"category">>>>
RowOf(r, u) ==
    <<<<str(r.id)>>, r.text, <<str(u)>>, <<str(r.created_at)>>, <<r.status>>,
      <<r.category>>>>

\* `content` is the header row followed by one row for each record of u in
\* db, in ascending id order, each with u in the user column.
IsExportOf(content, db, u) ==
    LET own == {r \in db : r.user = u}
    IN /\ Len(content) = 1 + Cardinality(own)
       /\ content[1] = HeaderRow
       /\ \A i \in 2..Len(content) :
             \E r \in own :
                /\ Cardinality({q \in own : q.id < r.id}) = i - 2
                /\ content[i] = RowOf(r, u)

\* C12: an export request of user u who has tasks, when the write completes,
\* writes the header row id,text,user,created_at,status,category followed by
\* exactly one row per task of u in ascending id order, with u in the user
\* column and no row of another user, into the file it leaves or the
\* document it delivers; when u has no tasks no file is created, nothing is
\* delivered and the "no tasks" reply is sent.
C12_ExportContent ==
    [][handler' \in ExportHandlers
       => \A u \in Users : \A fault \in Faults :
             Export(u, fault)
             => IF \A r \in tasks : r.user # u
                THEN /\ files' = files
                     /\ document' = <<>>
                     /\ out' = <<"no_tasks_to_export">>
                ELSE /\ fault \in {"send", "remove"}
                        => IsExportOf(files'[filename(u)], tasks, u)
                     /\ fault \in {"none", "remove"}
                        => IsExportOf(document', tasks, u)
      ]_vars

\* C12 witness: a user was delivered a file of one task while the table
\* holds a task of the other user too.
C12_Witness ==
    /\ handler \in ExportHandlers
    /\ out = <<"document">>
    /\ Len(document) = 2
    /\ \E r \in tasks, q \in tasks : r.user # q.user

\* C13: in an export request of a user who has tasks, whichever of the
\* write, the wrapping and delivery or the removal raises, the handler ends
\* with the error reported as text; a file that was there is gone afterwards
\* only when the document was delivered, and when the delivery raises the
\* file written stays on disk and nothing is delivered.
C13_ExportFailure ==
    [][handler' \in ExportHandlers
       => \A u \in Users : \A fault \in Faults :
             ((\E r \in tasks : r.user = u) /\ Export(u, fault))
             => /\ fault # "none" => out'[Len(out')] = "export_error"
                /\ fault = "none" => out' = <<"document">>
                /\ (filename(u) \in DOMAIN files /\ filename(u) \notin DOMAIN files')
                   => (out' = <<"document">> /\ document' # <<>>)
                /\ fault = "send"
                   => /\ filename(u) \in DOMAIN files'
                      /\ files'[filename(u)] = export_tasks_to_csv(tasks, u)
                      /\ document' = <<>>
      ]_vars

\* C13 witness: the delivery raised, the error was reported and the file is
\* on disk.
C13_Witness ==
    /\ handler \in ExportHandlers
    /\ out = <<"export_error">>
    /\ \E u \in Users :
          /\ filename(u) \in DOMAIN files
          /\ files[filename(u)] = export_tasks_to_csv(tasks, u)
          /\ Len(files[filename(u)]) >= 2

(***************************************************************************)
(* Model of the PDF generator (src/pdf_generator.py).                      *)
(*                                                                         *)
(* A str is the sequence of its characters.  A dict is the sequence of    *)
(* its items in insertion order, each a record of a key and a value.  A   *)
(* value is a record of its type ("str", "int" or "None") and its text:   *)
(* the characters of a str, the decimal digits of an int.  An int is a    *)
(* sequence of limbs and a float an IEEE binary64 value, so that the      *)
(* sums are those Python computes.  A call ends in a record that holds    *)
(* the exception it raised ("" for none) and the value it returned.       *)
(***************************************************************************)

\* What Python computes by a function is a function here: its arguments
\* are values when it is applied, as those of a Python call are.
Chars == Seq(STRING)
Values == [type : {"str", "int", "None"}, text : Chars]
Dicts == Seq([key : Chars, value : Values])

\* ------------------------------------------------------- python strs
Whitespace == {" ", "\t", "\n"}
Digits == {"0", "1", "2", "3", "4", "5", "6", "7", "8", "9"}

str_lstrip[s \in Chars] == IF s # <<>> /\ Head(s) \in Whitespace THEN str_lstrip[Tail(s)] ELSE s

str_rstrip[s \in Chars] ==
    IF s # <<>> /\ s[Len(s)] \in Whitespace THEN str_rstrip[SubSeq(s, 1, Len(s) - 1)] ELSE s

str_strip[s \in Chars] == str_rstrip[str_lstrip[s]]

\* The least of a set of indices; 0 for none.
first_of[at \in SUBSET Nat] == IF at = {} THEN 0 ELSE CHOOSE i \in at : \A j \in at : i <= j

\* The index of the first occurrence of old in s at or after from; 0 for none.
str_find[s \in Chars, old \in Chars, from \in Nat] ==
    first_of[{i \in from..(Len(s) - Len(old) + 1) : SubSeq(s, i, i + Len(old) - 1) = old}]

str_in[old \in Chars, s \in Chars] == str_find[s, old, 1] # 0

\* s.replace(old, new) for a non-empty old: the occurrences are taken from
\* left to right and do not overlap.
replace_from[s \in Chars, old \in Chars, new \in Chars, from \in Nat] ==
    LET i == str_find[s, old, from]
    IN IF i = 0 THEN SubSeq(s, from, Len(s))
       ELSE SubSeq(s, from, i - 1) \o new \o replace_from[s, old, new, i + Len(old)]

str_replace[s \in Chars, old \in Chars, new \in Chars] == replace_from[s, old, new, 1]

\* ------------------------------------------------------ python dicts
StrValue(s) == [type |-> "str", text |-> s]
IntValue(digits) == [type |-> "int", text |-> digits]
NoneValue == [type |-> "None", text |-> <<>>]

\* str(value)
str_of[value \in Values] == IF value.type = "None" THEN <<"N", "o", "n", "e">> ELSE value.text

keys[d \in Dicts] == {d[i].key : i \in DOMAIN d}

\* d.get(key, default)
get[d \in Dicts, key \in Chars, default \in Values] ==
    IF key \in keys[d] THEN d[CHOOSE i \in DOMAIN d : d[i].key = key].value ELSE default

\* d[key] = value: a key the dict holds keeps its place.
set[d \in Dicts, key \in Chars, value \in Values] ==
    IF key \in keys[d]
    THEN [i \in DOMAIN d |-> IF d[i].key = key THEN [key |-> key, value |-> value] ELSE d[i]]
    ELSE Append(d, [key |-> key, value |-> value])

Return(v) == [raised |-> "", value |-> v]
Raise(e) == [raised |-> e, value |-> <<>>]

\* ----------------------------------------------------- python ints
\* A Python int (and the mantissa arithmetic of a float): its limbs in base
\* Limb, least significant first, with no leading zero limb; <<>> is 0.
\* What Python computes by a function is a function here: its arguments
\* are values when it is applied, as those of a Python call are.
Limb == 2^15
Limbs == Seq(0..(Limb - 1))
DigitSeq == Seq(0..9)

trim[a \in Limbs] == IF a # <<>> /\ a[Len(a)] = 0 THEN trim[SubSeq(a, 1, Len(a) - 1)] ELSE a

big[n \in Nat] == IF n = 0 THEN <<>> ELSE <<n % Limb>> \o big[n \div Limb]

small[a \in Limbs] == IF a = <<>> THEN 0 ELSE Head(a) + Limb * small[Tail(a)]

add_carry[a \in Limbs, b \in Limbs, c \in Nat] ==
    IF a = <<>> /\ b = <<>> THEN (IF c = 0 THEN <<>> ELSE <<c>>)
    ELSE LET x == IF a = <<>> THEN 0 ELSE Head(a)
             y == IF b = <<>> THEN 0 ELSE Head(b)
             s == x + y + c
         IN <<s % Limb>> \o add_carry[IF a = <<>> THEN a ELSE Tail(a),
                                       IF b = <<>> THEN b ELSE Tail(b), s \div Limb]

big_add[a \in Limbs, b \in Limbs] == add_carry[a, b, 0]

\* a - b for a >= b.
sub_borrow[a \in Limbs, b \in Limbs, c \in Nat] ==
    IF a = <<>> THEN <<>>
    ELSE LET y == IF b = <<>> THEN 0 ELSE Head(b)
             d == Head(a) - y - c
         IN <<d % Limb>> \o sub_borrow[Tail(a), IF b = <<>> THEN b ELSE Tail(b),
                                       IF d < 0 THEN 1 ELSE 0]

big_sub[a \in Limbs, b \in Limbs] == trim[sub_borrow[a, b, 0]]

\* -1, 0 or 1 as a < b, a = b or a > b.
cmp_from[a \in Limbs, b \in Limbs, i \in Nat] ==
    IF i = 0 THEN 0
    ELSE IF a[i] < b[i] THEN -1
    ELSE IF a[i] > b[i] THEN 1
    ELSE cmp_from[a, b, i - 1]

big_cmp[a \in Limbs, b \in Limbs] ==
    IF Len(a) < Len(b) THEN -1
    ELSE IF Len(a) > Len(b) THEN 1
    ELSE cmp_from[a, b, Len(a)]

\* a * k + c for 0 <= k, c < Limb.
mul_small_carry[a \in Limbs, k \in Nat, c \in Nat] ==
    IF a = <<>> THEN (IF c = 0 THEN <<>> ELSE <<c>>)
    ELSE LET p == Head(a) * k + c
         IN <<p % Limb>> \o mul_small_carry[Tail(a), k, p \div Limb]

mul_small[a \in Limbs, k \in Nat] == IF k = 0 THEN <<>> ELSE mul_small_carry[a, k, 0]

\* a * Limb
shift_limb[a \in Limbs] == IF a = <<>> THEN <<>> ELSE <<0>> \o a

big_mul[a \in Limbs, b \in Limbs] ==
    IF b = <<>> \/ a = <<>> THEN <<>>
    ELSE big_add[mul_small[a, Head(b)], shift_limb[big_mul[a, Tail(b)]]]

\* The quotient a \div d and the remainder a % d for 0 < d < Limb, dividing
\* from the most significant limb down.
divmod_from[a \in Limbs, d \in Nat, i \in Nat, r \in Nat, q \in Limbs] ==
    IF i = 0 THEN [q |-> trim[q], r |-> r]
    ELSE LET x == r * Limb + a[i]
         IN divmod_from[a, d, i - 1, x % d, <<x \div d>> \o q]

divmod_small[a \in Limbs, d \in Nat] == divmod_from[a, d, Len(a), 0, <<>>]

bit_length_small[n \in Nat] == IF n = 0 THEN 0 ELSE 1 + bit_length_small[n \div 2]

bit_length[a \in Limbs] ==
    IF a = <<>> THEN 0 ELSE 15 * (Len(a) - 1) + bit_length_small[a[Len(a)]]

zeros(n) == [i \in 1..n |-> 0]

\* a << s and a >> s.
shl[a \in Limbs, s \in Nat] ==
    IF a = <<>> THEN <<>> ELSE zeros(s \div 15) \o mul_small[a, 2^(s % 15)]

shr[a \in Limbs, s \in Nat] ==
    IF s \div 15 >= Len(a) THEN <<>>
    ELSE divmod_small[SubSeq(a, s \div 15 + 1, Len(a)), 2^(s % 15)].q

is_odd[a \in Limbs] == a # <<>> /\ Head(a) % 2 = 1

\* q or q + 1 as the part cut off compares with one half (c is -1, 0 or 1):
\* ties go to the even one, unless sticky says that more was cut off.
round_half[q \in Limbs, c \in Int, sticky \in BOOLEAN] ==
    IF c = 1 \/ (c = 0 /\ (sticky \/ is_odd[q])) THEN big_add[q, <<1>>] ELSE q

round_quotient[a \in Limbs, q \in Limbs, s \in Nat, sticky \in BOOLEAN] ==
    round_half[q, big_cmp[big_sub[a, shl[q, s]], shl[<<1>>, s - 1]], sticky]

\* a / 2^s rounded to the nearest integer, ties to even; sticky says that
\* the value rounded exceeds a by a fraction of its last bit.
round_shift[a \in Limbs, s \in Nat, sticky \in BOOLEAN] ==
    IF s = 0 THEN a ELSE round_quotient[a, shr[a, s], s, sticky]

\* --------------------------------------------------- python floats
\* A Python float (IEEE binary64, not negative): m * 2^e with
\* 2^52 <= m < 2^53, or zero, or inf, or nan.  Subnormals are left out.
Zero == [cls |-> "fin", m |-> <<>>, e |-> 0]
Inf == [cls |-> "inf", m |-> <<>>, e |-> 0]
NaN == [cls |-> "nan", m |-> <<>>, e |-> 0]

Floats == [cls : {"fin", "inf", "nan"}, m : Limbs, e : Int]

\* m * 2^e, inf beyond the largest float.
finite[m \in Limbs, e \in Int] ==
    IF e + 52 > 1023 THEN Inf ELSE [cls |-> "fin", m |-> m, e |-> e]

\* q * 2^e for a q of 53 bits, or of 54 when rounding carried.
normal[q \in Limbs, e \in Int] ==
    IF bit_length[q] = 54 THEN finite[shr[q, 1], e + 1] ELSE finite[q, e]

\* a * 2^e (plus a fraction of a's last bit when sticky) rounded to the
\* nearest float, ties to even; inf beyond the largest float.
to_double[a \in Limbs, e \in Int, sticky \in BOOLEAN] ==
    IF a = <<>> THEN Zero
    ELSE LET s == bit_length[a] - 53
         IN normal[IF s > 0 THEN round_shift[a, s, sticky] ELSE shl[a, -s], e + s]

float_mul[x \in Floats, y \in Floats] ==
    IF x.cls = "nan" \/ y.cls = "nan" THEN NaN
    ELSE IF x.cls = "inf" \/ y.cls = "inf"
    THEN (IF x = Zero \/ y = Zero THEN NaN ELSE Inf)
    ELSE to_double[big_mul[x.m, y.m], x.e + y.e, FALSE]

float_add[x \in Floats, y \in Floats] ==
    IF x.cls = "nan" \/ y.cls = "nan" THEN NaN
    ELSE IF x.cls = "inf" \/ y.cls = "inf" THEN Inf
    ELSE IF x = Zero THEN y
    ELSE IF y = Zero THEN x
    ELSE LET e == IF x.e < y.e THEN x.e ELSE y.e
         IN to_double[big_add[shl[x.m, x.e - e], shl[y.m, y.e - e]], e, FALSE]

\* x - y for finite x >= y.
float_sub[x \in Floats, y \in Floats] ==
    IF y = Zero THEN x
    ELSE LET e == IF x.e < y.e THEN x.e ELSE y.e
         IN to_double[big_sub[shl[x.m, x.e - e], shl[y.m, y.e - e]], e, FALSE]

\* a \div 10^k, and whether anything was cut off (or sticky said so).
Quotients == [q : Limbs, sticky : BOOLEAN]

div_step[d \in Quotients, r \in Nat] == [q |-> d.q, sticky |-> d.sticky \/ r # 0]

div_pow10[a \in Limbs, k \in Nat, sticky \in BOOLEAN] ==
    IF k = 0 THEN [q |-> a, sticky |-> sticky]
    ELSE IF k >= 4
    THEN div_step[div_pow10[divmod_small[a, 10000].q, k - 4, sticky], divmod_small[a, 10000].r]
    ELSE div_step[div_pow10[divmod_small[a, 10].q, k - 1, sticky], divmod_small[a, 10].r]

rounded_quotient[d \in Quotients, e \in Int] == to_double[d.q, e, d.sticky]

\* The float nearest to n / 10^k (k >= 0): strtod on a decimal literal.
decimal_to_double[n \in Limbs, k \in Nat] ==
    IF n = <<>> THEN Zero
    ELSE LET need == 56 + 4 * k - bit_length[n]
             s == IF need > 0 THEN need ELSE 0
         IN rounded_quotient[div_pow10[shl[n, s], k, FALSE], -s]

\* int -> float, as an arithmetic operator converts its int operand.
int_to_float[n \in Limbs] == to_double[n, 0, FALSE]

\* int(x) of a finite float: the integer part.
float_to_int[x \in Floats] == IF x.e >= 0 THEN shl[x.m, x.e] ELSE shr[x.m, -x.e]

\* round(x) of a finite float: the nearest int, ties to even.
float_round[x \in Floats] == IF x.e >= 0 THEN shl[x.m, x.e] ELSE round_shift[x.m, -x.e, FALSE]

\* round(x, 2): x rounded to two decimals (ties of the exact value to even)
\* and read back as a float.
float_round2[x \in Floats] ==
    IF x.cls # "fin" \/ x.e >= 0 THEN x
    ELSE decimal_to_double[round_shift[mul_small[x.m, 100], -x.e, FALSE], 2]

\* --------------------------------------------------- str of numbers
pow10[k \in Nat] ==
    IF k = 0 THEN <<1>>
    ELSE IF k >= 4 THEN mul_small[pow10[k - 4], 10000]
    ELSE mul_small[pow10[k - 1], 10]

\* The decimal digits of an int, most significant first; none for 0.
digits_of[a \in Limbs] ==
    IF a = <<>> THEN <<>>
    ELSE digits_of[divmod_small[a, 10].q] \o <<divmod_small[a, 10].r>>

digit_char(d) == <<"0", "1", "2", "3", "4", "5", "6", "7", "8", "9">>[d + 1]

chars_of[ds \in DigitSeq] == [i \in 1..Len(ds) |-> digit_char(ds[i])]

\* str(n) of an int n >= 0.
int_str[a \in Limbs] == IF a = <<>> THEN <<"0">> ELSE chars_of[digits_of[a]]

\* int(s) of a string of decimal digits.
digit_value(c) ==
    CASE c = "0" -> 0 [] c = "1" -> 1 [] c = "2" -> 2 [] c = "3" -> 3 [] c = "4" -> 4
      [] c = "5" -> 5 [] c = "6" -> 6 [] c = "7" -> 7 [] c = "8" -> 8 [] c = "9" -> 9

\* a * 10^k
mul_pow10[a \in Limbs, k \in Nat] ==
    IF k = 0 \/ a = <<>> THEN a
    ELSE IF k >= 4 THEN mul_pow10[mul_small[a, 10000], k - 4]
    ELSE mul_pow10[mul_small[a, 10], k - 1]

\* The halves of a long string are converted apart and put together.
int_of_digits[s \in Chars] ==
    IF s = <<>> THEN <<>>
    ELSE IF Len(s) = 1 THEN big[digit_value(s[1])]
    ELSE LET h == Len(s) \div 2
         IN big_add[mul_pow10[int_of_digits[SubSeq(s, 1, Len(s) - h)], h],
                    int_of_digits[SubSeq(s, Len(s) - h + 1, Len(s))]]

\* The number of digits before the decimal point of a finite x > 0 written
\* in decimal, counting leading zeros after the point as negative.
decpt_below[x \in Floats, j \in Nat] ==
    IF big_cmp[big_mul[x.m, pow10[j]], shl[<<1>>, -x.e]] >= 0 THEN 1 - j
    ELSE decpt_below[x, j + 1]

decpt_of[x \in Floats] ==
    LET i == float_to_int[x]
    IN IF i # <<>> THEN Len(digits_of[i]) ELSE decpt_below[x, 1]

round_scaled[d \in Quotients, s \in Nat] == round_shift[d.q, s, d.sticky]

\* x * 10^k rounded to the nearest integer, ties to even: twice the value
\* is divided down and halved again with the power of two.
scaled[x \in Floats, k \in Int] ==
    round_scaled[div_pow10[big_mul[shl[x.m, 1 + (IF x.e > 0 THEN x.e ELSE 0)],
                                   pow10[IF k > 0 THEN k ELSE 0]],
                           IF k < 0 THEN -k ELSE 0, FALSE],
                 1 + (IF x.e < 0 THEN -x.e ELSE 0)]

\* The float nearest to d * 10^(-k).
unscaled[d \in Limbs, k \in Int] == IF k >= 0 THEN decimal_to_double[d, k] ELSE 
    decimal_to_double[big_mul[d, pow10[-k]], 0]

strip_zeros[ds \in DigitSeq] ==
    IF ds # <<>> /\ ds[Len(ds)] = 0 THEN strip_zeros[SubSeq(ds, 1, Len(ds) - 1)] ELSE ds

Decimals == [digits : DigitSeq, decpt : Int]

\* The digits ds of a number scaled by 10^k, without the zeros at the end.
decimal[ds \in DigitSeq, k \in Int] == [digits |-> strip_zeros[ds], decpt |-> Len(ds) - k]

\* The shortest digit string that reads back as x, with its decimal point:
\* the n-digit decimal nearest to x for the least n for which it does.
shortest[x \in Floats, decpt \in Int, n \in Nat] ==
    IF n >= 17 \/ unscaled[scaled[x, n - decpt], n - decpt] = x
    THEN decimal[digits_of[scaled[x, n - decpt]], n - decpt]
    ELSE shortest[x, decpt, n + 1]

repeat(c, n) == [i \in 1..n |-> c]

\* The digits s with the decimal point behind the p-th of them, as repr
\* writes them.
float_repr[s \in Chars, p \in Int] ==
    IF p > 16 \/ p <= -4
    THEN LET x10 == IF p >= 1 THEN p - 1 ELSE 1 - p
             xs == int_str[big[x10]]
         IN <<Head(s)>> \o (IF Len(s) > 1 THEN <<".">> \o Tail(s) ELSE <<>>)
            \o <<"e", IF p >= 1 THEN "+" ELSE "-">>
            \o (IF Len(xs) < 2 THEN <<"0">> ELSE <<>>) \o xs
    ELSE IF p <= 0 THEN <<"0", ".">> \o repeat("0", -p) \o s
    ELSE IF p >= Len(s) THEN s \o repeat("0", p - Len(s)) \o <<".", "0">>
    ELSE SubSeq(s, 1, p) \o <<".">> \o SubSeq(s, p + 1, Len(s))

decimal_repr[r \in Decimals] == float_repr[chars_of[r.digits], r.decpt]

\* repr(x), which str(x) is.
float_str[x \in Floats] ==
    IF x.cls = "inf" THEN <<"i", "n", "f">>
    ELSE IF x.cls = "nan" THEN <<"n", "a", "n">>
    ELSE IF x = Zero THEN <<"0", ".", "0">>
    ELSE decimal_repr[shortest[x, decpt_of[x], 1]]

\* --------------------------------------------------- calculate_fields
\* re.sub(r'[^\d.]', '', s) and re.sub(r'[^\d]', '', s)
digits_and_dots[s \in Chars] == LET keep(c) == c \in Digits \/ c = "." IN SelectSeq(s, keep)
digits_only[s \in Chars] == LET keep(c) == c \in Digits IN SelectSeq(s, keep)

\* float(s) of a string of digits and dots raises ValueError unless the
\* string holds a digit and at most one dot.
is_float_literal[s \in Chars] ==
    LET dot(c) == c = "." IN digits_only[s] # <<>> /\ Len(SelectSeq(s, dot)) <= 1

\* An int is written here by its decimal digits without leading zeros,
\* <<>> for 0: int(s) of a string of digits, and str(n).
int_of_str[s \in Chars] == IF s # <<>> /\ Head(s) = "0" THEN int_of_str[Tail(s)] ELSE s

str_of_int[n \in Chars] == IF n = <<>> THEN <<"0">> ELSE n

\* The largest float is below 1.8 * 10^308: a number of more digits than
\* these is beyond it.
MaxFloatDigits == 309

\* The float an arithmetic operator converts its int operand to; inf
\* stands for the OverflowError the conversion raises.
float_of_int[n \in Chars] ==
    IF Len(n) > MaxFloatDigits THEN Inf ELSE int_to_float[int_of_digits[n]]

float_of_str[s \in Chars] ==
    LET dot == str_find[s, <<".">>, 1]
        whole == int_of_str[IF dot = 0 THEN s ELSE SubSeq(s, 1, dot - 1)]
    IN IF Len(whole) > MaxFloatDigits THEN Inf
       ELSE decimal_to_double[int_of_digits[digits_only[s]],
                              IF dot = 0 THEN 0 ELSE Len(s) - dot]

\* f"{n:,}" for the digits of n
group_thousands[s \in Chars] ==
    IF Len(s) <= 3 THEN s
    ELSE group_thousands[SubSeq(s, 1, Len(s) - 3)] \o <<",">> \o SubSeq(s, Len(s) - 2, Len(s))

\* f"{n:02d}" for the digits of n
zero_pad2[s \in Chars] == IF Len(s) < 2 THEN <<"0">> \o s ELSE s

\* datetime.now().strftime('%d.%m.%Y %H:%M')
strftime(t) ==
    zero_pad2[int_str[big[t.day]]] \o <<".">> \o zero_pad2[int_str[big[t.month]]] \o <<".">>
    \o int_str[big[t.year]] \o <<" ">>
    \o zero_pad2[int_str[big[t.hour]]] \o <<":">> \o zero_pad2[int_str[big[t.minute]]]

\* The integer part with blanks between the thousands, a comma and two
\* digits of the hundredths.
currency_text[integer_part \in Limbs, fractional_part \in Limbs] ==
    str_replace[group_thousands[int_str[integer_part]], <<",">>, <<" ">>]
    \o <<",">> \o zero_pad2[int_str[fractional_part]]

format_rounded[rounded \in Floats, integer_part \in Limbs] ==
    currency_text[integer_part,
                  float_round[float_mul[float_sub[rounded, int_to_float[integer_part]],
                                        int_to_float[big[100]]]]]

\* int(inf) raises OverflowError and int(nan) ValueError.
format_currency[value \in Floats] ==
    LET rounded == float_round2[value]
    IN IF rounded.cls = "inf" THEN Raise("OverflowError")
       ELSE IF rounded.cls = "nan" THEN Raise("ValueError")
       ELSE Return(format_rounded[rounded, float_to_int[rounded]])

Key_price == <<"p", "r", "i", "c", "e">>
Key_qty == <<"q", "t", "y">>
Key_record_number == <<"r", "e", "c", "o", "r", "d", "_", "n", "u", "m", "b", "e", "r">>
Key_total_records == <<"t", "o", "t", "a", "l", "_", "r", "e", "c", "o", "r", "d", "s">>
Key_generation_date == <<"g", "e", "n", "e", "r", "a", "t", "i", "o", "n", "_", "d", "a", "t", "e">>
Key_subtotal == <<"s", "u", "b", "t", "o", "t", "a", "l">>
Key_vat == <<"v", "a", "t">>
Key_total == <<"t", "o", "t", "a", "l">>
Key_price_numeric == <<"p", "r", "i", "c", "e", "_", "n", "u", "m", "e", "r", "i", "c">>
Key_qty_numeric == <<"q", "t", "y", "_", "n", "u", "m", "e", "r", "i", "c">>
Key_subtotal_numeric == <<"s", "u", "b", "t", "o", "t", "a", "l", "_", "n", "u", "m", "e", "r", "i", "c">>
Key_vat_numeric == <<"v", "a", "t", "_", "n", "u", "m", "e", "r", "i", "c">>
Key_total_numeric == <<"t", "o", "t", "a", "l", "_", "n", "u", "m", "e", "r", "i", "c">>

defaults_Nothing(result) == result

\* The except clause of calculate_fields.
defaults(result) ==
    set[set[set[result, Key_subtotal, StrValue(<<"0", ",", "0", "0">>)],
            Key_vat, StrValue(<<"0", ",", "0", "0">>)],
        Key_total, StrValue(<<"0", ",", "0", "0">>)]

\* The sums of the try block; ValueError and TypeError end in the except
\* clause, any other exception leaves the function.
sums[result \in Dicts, price \in Floats, qty \in Chars] ==
    IF float_of_int[qty] = Inf THEN Raise("OverflowError")
    ELSE LET subtotal == float_mul[price, float_of_int[qty]]
             vat == float_mul[subtotal, decimal_to_double[big[2], 1]]
             total == float_add[subtotal, vat]
             f_subtotal == format_currency[subtotal]
             f_vat == format_currency[vat]
             f_total == format_currency[total]
             failed ==
                 IF f_subtotal.raised # "" THEN f_subtotal.raised
                 ELSE IF f_vat.raised # "" THEN f_vat.raised
                 ELSE f_total.raised
         IN IF failed = "ValueError" THEN Return(defaults(result))
            ELSE IF failed # "" THEN Raise(failed)
            ELSE Return(
                set[set[set[set[set[set[set[set[result,
                    Key_subtotal, StrValue(f_subtotal.value)],
                    Key_vat, StrValue(f_vat.value)],
                    Key_total, StrValue(f_total.value)],
                    Key_price_numeric, StrValue(float_str[price])],
                    Key_qty_numeric, StrValue(str_of_int[qty])],
                    Key_subtotal_numeric, StrValue(float_str[subtotal])],
                    Key_vat_numeric, StrValue(float_str[vat])],
                    Key_total_numeric, StrValue(float_str[total])])

calculate_fields(data, record_number, total_records, t) ==
    LET result ==
            set[set[set[data, Key_record_number, StrValue(int_str[big[record_number]])],
                    Key_total_records, StrValue(int_str[big[total_records]])],
                Key_generation_date, StrValue(strftime(t))]
        price_str ==
            digits_and_dots[
                str_replace[
                    str_replace[str_strip[str_of[get[data, Key_price, StrValue(<<"0">>)]]],
                                <<" ">>, <<>>],
                    <<",">>, <<".">>]]
        qty_str == digits_only[str_strip[str_of[get[data, Key_qty, StrValue(<<"0">>)]]]]
    IN IF price_str # <<>> /\ ~is_float_literal[price_str] THEN Return(defaults(result))
       ELSE sums[result,
                 IF price_str # <<>> THEN float_of_str[price_str] ELSE Zero,
                 IF qty_str # <<>> THEN int_of_str[qty_str] ELSE <<>>]

\* ---------------------------------------- calculate_fields on its own
\* The number of digits of a number too large for a float.
HugeLen == 310

\* The cells a CSV row may hold under column price and under column qty;
\* a row cut short holds None, and a file may lack the column.
Absent == [type |-> "absent", text |-> <<>>]
PriceCells ==
    { StrValue(<<"1", " ", "0", "0", "0", ",", "5", "0">>), StrValue(<<"1", "2">>), StrValue(<<"0", ",", "1">>),
      StrValue(<<"2", ".", "6", "7", "5">>), StrValue(<<" ", "1", " ", "2", "3", "4", " ", "5", "6", "7", ",", "8", "9", " ", "r", "u", "b">>),
      StrValue(<<"1", ".", "2", ".", "3">>), StrValue(<<"n", "/", "a">>), StrValue(<<>>),
      StrValue(repeat("9", HugeLen)), NoneValue, Absent }
QtyCells ==
    { StrValue(<<"3">>), StrValue(<<"1">>), StrValue(<<"0">>),
      StrValue(<<" ", "2", " ", "p", "c", "s">>), StrValue(<<"-">>),
      StrValue(repeat("9", HugeLen)), Absent }
\* The first column of the row: another column of the file.
OtherColumns ==
    { <<>>,
      <<[key |-> <<"n", "a", "m", "e">>, value |-> StrValue(<<"A", "n", "n">>)]>>,
      <<[key |-> Key_total, value |-> StrValue(<<"k", "e", "p", "t">>)]>>,
      <<[key |-> Key_record_number, value |-> StrValue(<<"9">>)]>>,
      <<[key |-> Key_vat_numeric, value |-> StrValue(<<"x">>)]>> }

column(key, cell) == IF cell = Absent THEN <<>> ELSE <<[key |-> key, value |-> cell]>>

Rows ==
    { other \o column(Key_price, p) \o column(Key_qty, q) :
        other \in OtherColumns, p \in PriceCells, q \in QtyCells }

Clock ==
    { [day |-> 1, month |-> 11, year |-> 2026, hour |-> 9, minute |-> 5],
      [day |-> 31, month |-> 12, year |-> 2026, hour |-> 23, minute |-> 59] }

bot_idle ==
    /\ tasks = {}
    /\ seq = 0
    /\ user_states = <<>>
    /\ pending_tasks = <<>>
    /\ files = <<>>
    /\ out = <<>>
    /\ document = <<>>
    /\ loop_idle

InitDerive ==
    /\ bot_idle
    /\ handler = ""
    /\ call_data \in Rows
    /\ \E n \in 1..2 : call_total = n + 1 /\ call_number \in {1, n + 1}
    /\ call_template = <<>>
    /\ returned = <<>>
    /\ csv_data = <<>>
    /\ html_template = <<>>
    /\ idx = 0
    /\ success_count = 0
    /\ error_count = 0
    /\ generated_pdfs = <<>>

derive(t) ==
    /\ handler = ""
    /\ handler' = "calculate_fields"
    /\ returned' = calculate_fields(call_data, call_number, call_total, t)
    /\ UNCHANGED <<bot_vars, loop_vars>>
    /\ UNCHANGED <<call_data, call_number, call_total, call_template, csv_data,
                   html_template, idx, success_count, error_count, generated_pdfs>>

NextDerive == \E t \in Clock : derive(t)

SpecDerive == InitDerive /\ [][NextDerive]_vars

\* The mapping calculate_fields returned, and the text it holds under a key.
derived == handler = "calculate_fields" /\ returned.raised = ""
field(key) == str_of[get[returned.value, key, NoneValue]]

\* Digits in groups of three parted by blanks, a comma, two digits.
is_currency(s) ==
    /\ Len(s) >= 4
    /\ s[Len(s) - 2] = ","
    /\ s[1] # " "
    /\ \A i \in 1..Len(s) :
          IF i = Len(s) - 2 THEN TRUE
          ELSE IF i < Len(s) - 2 /\ (Len(s) - 2 - i) % 4 = 0 THEN s[i] = " "
          ELSE s[i] \in Digits
    /\ (Len(s) > 4 => s[1] # "0")

ExampleRow ==
    <<[key |-> Key_price, value |-> StrValue(<<"1", " ", "0", "0", "0", ",", "5", "0">>)],
      [key |-> Key_qty, value |-> StrValue(<<"3">>)]>>

\* C14: calculate_fields formats subtotal, vat and total as digits grouped
\* by blanks, a comma and exactly two digits, and for the row
\* {price: "1 000,50", qty: "3"} it yields subtotal_numeric 3001.5,
\* vat_numeric 600.3, total_numeric 3601.8 and the formatted total "3 601,80".
C14_Derive ==
    derived /\ Key_subtotal_numeric \in keys[returned.value] =>
        /\ is_currency(field(Key_subtotal))
        /\ is_currency(field(Key_vat))
        /\ is_currency(field(Key_total))
        /\ call_data = ExampleRow =>
              /\ field(Key_subtotal_numeric) = <<"3", "0", "0", "1", ".", "5">>
              /\ field(Key_vat_numeric) = <<"6", "0", "0", ".", "3">>
              /\ field(Key_total_numeric) = <<"3", "6", "0", "1", ".", "8">>
              /\ field(Key_total) = <<"3", " ", "6", "0", "1", ",", "8", "0">>

ZeroAmount == <<"0", ",", "0", "0">>

\* C15: calculate_fields never raises, whatever price and qty hold; when
\* the sums cannot be computed it still returns the mapping, with
\* subtotal, vat and total set to "0,00".
C15_NeverRaises ==
    handler = "calculate_fields" =>
        /\ returned.raised = ""
        /\ Key_subtotal_numeric \notin keys[returned.value] =>
              /\ field(Key_subtotal) = ZeroAmount
              /\ field(Key_vat) = ZeroAmount
              /\ field(Key_total) = ZeroAmount

MetadataKeys == {Key_record_number, Key_total_records, Key_generation_date}
AmountKeys == {Key_subtotal, Key_vat, Key_total}
NumericKeys ==
    { Key_price_numeric, Key_qty_numeric, Key_subtotal_numeric, Key_vat_numeric,
      Key_total_numeric }
DerivedKeys == MetadataKeys \cup AmountKeys \cup NumericKeys

\* The items of the input the mapping returned holds unchanged.
kept(names) ==
    \A i \in DOMAIN call_data :
        call_data[i].key \in names =>
            get[returned.value, call_data[i].key, NoneValue] = call_data[i].value

metadata_set ==
    /\ field(Key_record_number) = int_str[big[call_number]]
    /\ field(Key_total_records) = int_str[big[call_total]]
    /\ \E t \in Clock : field(Key_generation_date) = strftime(t)

findall_double[s \in Chars, i \in Nat] ==
    LET open == str_find[s, <<"{">>, i]
        j == str_find[s, <<"}">>, open + 2]
    IN IF open = 0 \/ open + 4 > Len(s) THEN <<>>
       ELSE IF s[open + 1] = "{" /\ j >= open + 3 /\ j < Len(s) /\ s[j + 1] = "}"
       THEN <<SubSeq(s, open + 2, j - 1)>> \o findall_double[s, j + 2]
       ELSE findall_double[s, open + 1]

\* re.findall(r'\{([^}]+)\}', s) from index i on.
findall_single[s \in Chars, i \in Nat] ==
    LET open == str_find[s, <<"{">>, i]
        j == str_find[s, <<"}">>, open + 1]
    IN IF open = 0 \/ open + 2 > Len(s) THEN <<>>
       ELSE IF j >= open + 2
       THEN <<SubSeq(s, open + 1, j - 1)>> \o findall_single[s, j + 1]
       ELSE findall_single[s, open + 1]

double_placeholder[key \in Chars] == <<"{", "{">> \o key \o <<"}", "}">>
single_placeholder[key \in Chars] == <<"{">> \o key \o <<"}">>

\* value = '' if value is None else str(value)
str_or_empty[value \in Values] == IF value.type = "None" THEN <<>> ELSE str_of[value]

\* The two loops over data.items(), from item i on.
replace_double[result \in Chars, data \in Dicts, i \in Nat] ==
    IF i > Len(data) THEN result
    ELSE IF str_in[double_placeholder[data[i].key], result]
    THEN replace_double[
             str_replace[result, double_placeholder[data[i].key], str_or_empty[data[i].value]],
             data, i + 1]
    ELSE replace_double[result, data, i + 1]

replace_single[result \in Chars, data \in Dicts, i \in Nat] ==
    IF i > Len(data) THEN result
    ELSE IF str_in[single_placeholder[data[i].key], result]
    THEN replace_single[
             str_replace[result, single_placeholder[data[i].key], str_or_empty[data[i].value]],
             data, i + 1]
    ELSE replace_single[result, data, i + 1]

\* The two loops over the placeholders left, from the i-th one found on.
remove_double[result \in Chars, remaining \in Seq(Chars), data \in Dicts, i \in Nat] ==
    IF i > Len(remaining) THEN result
    ELSE remove_double[
             IF remaining[i] \notin keys[data]
             THEN str_replace[result, double_placeholder[remaining[i]], <<>>]
             ELSE result,
             remaining, data, i + 1]

remove_single[result \in Chars, remaining \in Seq(Chars), data \in Dicts, i \in Nat] ==
    IF i > Len(remaining) THEN result
    ELSE remove_single[
             IF remaining[i] \notin keys[data] /\ str_strip[remaining[i]] # <<>>
             THEN str_replace[result, single_placeholder[remaining[i]], <<>>]
             ELSE result,
             remaining, data, i + 1]

\* Lines 280-284, on the text without double placeholders.
remove_singles[no_double \in Chars, data \in Dicts] ==
    remove_single[no_double, findall_single[no_double, 1], data, 1]

\* Lines 273-284, on the text the two loops over the data left.
remove_remaining[replaced \in Chars, data \in Dicts] ==
    remove_singles[remove_double[replaced, findall_double[replaced, 1], data, 1], data]

substitute_template[template \in Chars, data \in Dicts] ==
    remove_remaining[replace_single[replace_double[template, data, 1], data, 1], data]

\* ---------------------------------------- substitute_template on its own
\* The number of pieces a template is put together from.
MaxPieces == 5

Pieces ==
    { <<"{", "a", "}">>, <<"{", "{", "a", "}", "}">>, <<"{">>, <<"}">>, <<"c">>, <<" ">> }

RECURSIVE Templates(_)
Templates(n) ==
    IF n = 0 THEN {<<>>}
    ELSE LET shorter == Templates(n - 1)
         IN shorter \cup {p \o t : p \in Pieces, t \in shorter}

Key_a == <<"a">>
Key_b == <<"b">>
Key_c == <<"c">>

\* Data whose values hold no brace.
PlainData ==
    { <<>>,
      <<[key |-> Key_a, value |-> StrValue(<<"v">>)]>>,
      <<[key |-> Key_a, value |-> NoneValue]>>,
      <<[key |-> Key_a, value |-> IntValue(<<"3", "0">>)]>>,
      <<[key |-> Key_c, value |-> StrValue(<<"v">>)]>> }

\* Data with a value that holds a placeholder, in both orders of the keys.
BraceData ==
    { <<[key |-> Key_a, value |-> StrValue(single_placeholder[Key_b])],
        [key |-> Key_b, value |-> StrValue(<<"X">>)]>>,
      <<[key |-> Key_b, value |-> StrValue(<<"X">>)],
        [key |-> Key_a, value |-> StrValue(single_placeholder[Key_b])]>>,
      <<[key |-> Key_a, value |-> StrValue(double_placeholder[Key_b])],
        [key |-> Key_b, value |-> StrValue(<<"X">>)]>>,
      <<[key |-> Key_b, value |-> StrValue(<<"X">>)],
        [key |-> Key_a, value |-> StrValue(double_placeholder[Key_b])]>>,
      <<[key |-> Key_a, value |-> StrValue(single_placeholder[Key_b])]>>,
      <<[key |-> Key_a, value |-> StrValue(double_placeholder[Key_b])]>> }

BraceTemplates ==
    { single_placeholder[Key_a], double_placeholder[Key_a],
      <<"x">> \o double_placeholder[Key_a] \o <<" ">> \o single_placeholder[Key_b],
      single_placeholder[Key_b] \o double_placeholder[Key_a] }

HelloTemplate == <<"H", "e", "l", "l", "o", " ", "{", "{", "n", "a", "m", "e", "}", "}", ",", " ", "{", "a", "g", "e", "}">>
HelloData ==
    <<[key |-> <<"n", "a", "m", "e">>, value |-> StrValue(<<"A", "n", "n">>)],
      [key |-> <<"a", "g", "e">>, value |-> IntValue(<<"3", "0">>)]>>

InitSubstitute ==
    /\ bot_idle
    /\ handler = ""
    /\ \/ call_template \in Templates(MaxPieces) /\ call_data \in PlainData
       \/ call_template \in BraceTemplates /\ call_data \in BraceData
       \/ call_template = HelloTemplate /\ call_data = HelloData
       \/ call_template = double_placeholder[<<"x">>] /\ call_data = <<>>
    /\ call_number = 0
    /\ call_total = 0
    /\ returned = <<>>
    /\ csv_data = <<>>
    /\ html_template = <<>>
    /\ idx = 0
    /\ success_count = 0
    /\ error_count = 0
    /\ generated_pdfs = <<>>

substitute ==
    /\ handler = ""
    /\ handler' = "substitute_template"
    /\ returned' = Return(substitute_template[call_template, call_data])
    /\ UNCHANGED <<bot_vars, loop_vars>>
    /\ UNCHANGED <<call_data, call_number, call_total, call_template, csv_data,
                   html_template, idx, success_count, error_count, generated_pdfs>>

NextSubstitute == substitute

SpecSubstitute == InitSubstitute /\ [][NextSubstitute]_vars

substituted == handler = "substitute_template"

\* A template that is plain text (no brace) and placeholders {{key}} and
\* {key} of keys of the data, read from index i on, and what it is with
\* each placeholder replaced by the text of its value.
RECURSIVE well_formed(_, _, _)
well_formed(s, data, i) ==
    IF i > Len(s) THEN TRUE
    ELSE IF s[i] = "}" THEN FALSE
    ELSE IF s[i] # "{" THEN well_formed(s, data, i + 1)
    ELSE LET double == i < Len(s) /\ s[i + 1] = "{"
             from == IF double THEN i + 2 ELSE i + 1
             j == str_find[s, <<"}">>, from]
             name == SubSeq(s, from, j - 1)
         IN /\ j > from
            /\ name \in keys[data]
            /\ \A k \in DOMAIN name : name[k] # "{"
            /\ (double => j < Len(s) /\ s[j + 1] = "}")
            /\ well_formed(s, data, IF double THEN j + 2 ELSE j + 1)

RECURSIVE expected(_, _, _)
expected(s, data, i) ==
    IF i > Len(s) THEN <<>>
    ELSE IF s[i] # "{" THEN <<s[i]>> \o expected(s, data, i + 1)
    ELSE LET double == s[i + 1] = "{"
             from == IF double THEN i + 2 ELSE i + 1
             j == str_find[s, <<"}">>, from]
         IN str_or_empty[get[data, SubSeq(s, from, j - 1), NoneValue]]
            \o expected(s, data, IF double THEN j + 2 ELSE j + 1)

brace_free(data) ==
    \A i \in DOMAIN data :
        \A k \in DOMAIN data[i].value.text : data[i].value.text[k] \notin {"{", "}"}

\* The names of the placeholders a text holds.
names_in(s) ==
    {findall_double[s, 1][i] : i \in DOMAIN findall_double[s, 1]}
    \cup {findall_single[s, 1][i] : i \in DOMAIN findall_single[s, 1]}

\* C17: with values that hold no brace, substitute_template replaces every
\* {{key}} and {key} of a known key by the text of the value ('' for None)
\* and leaves no {{name}} or {name} whose name is not a key of the data;
\* "Hello {{name}}, {age}" with {name: "Ann", age: 30} gives
\* "Hello Ann, 30" and "{{x}}" with {} gives "".
C17_Substitute ==
    substituted /\ brace_free(call_data) =>
        /\ well_formed(call_template, call_data, 1) =>
              returned.value = expected(call_template, call_data, 1)
        /\ names_in(returned.value) \subseteq keys[call_data]
        /\ call_template = HelloTemplate /\ call_data = HelloData =>
              returned.value = <<"H", "e", "l", "l", "o", " ", "A", "n", "n", ",", " ", "3", "0">>
        /\ call_template = double_placeholder[<<"x">>] /\ call_data = <<>> =>
              returned.value = <<>>

\* C18: a value that holds braces ("{b}" or "{{b}}", b a key or not)
\* stands in the output as it is wherever its placeholder stood, whatever
\* the order of the keys.
C18_Verbatim ==
    substituted /\ ~brace_free(call_data) /\ well_formed(call_template, call_data, 1) =>
        returned.value = expected(call_template, call_data, 1)

\* ----------------------------------------------------------- main
\* invalid_chars = '<>:"/\\|?*'
invalid_chars == {"<", ">", ":", "\"", "/", "\\", "|", "?", "*"}

replace_invalid[s \in Chars] == [i \in DOMAIN s |-> IF s[i] \in invalid_chars THEN "_" ELSE s[i]]

\* re.sub(r'\s+', ' ', s): of a run of whitespace the first character
\* stays, as a blank.
collapse_whitespace[s \in Chars] ==
    LET first_of_run(i) == s[i] \notin Whitespace \/ i = 1 \/ s[i - 1] \notin Whitespace
        blank_at(i) == IF s[i] \in Whitespace THEN " " ELSE s[i]
        keep(m) == m.keep
        text(chosen) == [i \in DOMAIN chosen |-> chosen[i].c]
    IN text(SelectSeq([i \in DOMAIN s |-> [c |-> blank_at(i), keep |-> first_of_run(i)]], keep))

MaxBase == 200

record_(i) == <<"r", "e", "c", "o", "r", "d", "_">> \o int_str[big[i]]

\* Lines 468-471: at most MaxBase characters, and the number of the row
\* when no character is left.
limited[clean \in Chars, i \in Nat] ==
    LET cut == IF Len(clean) > MaxBase THEN SubSeq(clean, 1, MaxBase) ELSE clean
    IN IF cut = <<>> THEN record_(i) ELSE cut

\* Lines 460-471: the base of the file name of row number i.
filename_base(row, i) ==
    limited[str_strip[collapse_whitespace[replace_invalid[
                IF row # <<>> THEN str_of[row[1].value] ELSE record_(i)]]], i]

pdf_filename_NoIndex(base, i) == base \o <<".", "p", "d", "f">>

\* f"{filename_base}_{idx}.pdf"
pdf_filename(base, i) == base \o <<"_">> \o int_str[big[i]] \o <<".", "p", "d", "f">>

caught_ValueErrorOnly(e) == e \in {"ValueError", "TypeError"}

\* except Exception: the exceptions the model raises are all its subclasses.
caught(e) == e \in {"ValueError", "TypeError", "OverflowError"}

Derived == [raised : STRING, value : Dicts]

\* Lines 457-473 after the call of calculate_fields: its exception, or the
\* html and the file name.
html_and_name[extended_data \in Derived, template \in Chars, name \in Chars] ==
    IF extended_data.raised # "" THEN Raise(extended_data.raised)
    ELSE Return([html_content |-> substitute_template[template, extended_data.value],
                 pdf_filename |-> name])

\* The try block of the loop for row number i up to the call of
\* generate_pdf: the exception raised, or the html and the file name.
prepare(row, i, total, t, template) ==
    html_and_name[calculate_fields(row, i, total, t), template,
                  pdf_filename(filename_base(row, i), i)]

\* One pass of the loop; generate_pdf catches what rendering raises and
\* answers whether the file was written.
main_row(t, written) ==
    /\ handler \in {"", "main_row"}
    /\ idx < Len(csv_data)
    /\ \E i \in {idx + 1} :
       \E prepared \in {prepare(csv_data[i], i, Len(csv_data), t, html_template)} :
          IF prepared.raised = ""
          THEN /\ handler' = "main_row"
               /\ idx' = i
               /\ returned' = prepared.value.html_content
               /\ generated_pdfs' =
                      Append(generated_pdfs,
                             [idx |-> i, pdf_filename |-> prepared.value.pdf_filename,
                              written |-> written])
               /\ success_count' = IF written THEN success_count + 1 ELSE success_count
               /\ error_count' = IF written THEN error_count ELSE error_count + 1
          ELSE IF caught(prepared.raised)
          THEN /\ handler' = "main_row"
               /\ idx' = i
               /\ returned' = <<>>
               /\ error_count' = error_count + 1
               /\ UNCHANGED <<generated_pdfs, success_count>>
          ELSE /\ handler' = "main_raised"
               /\ returned' = <<>>
               /\ UNCHANGED <<idx, generated_pdfs, success_count, error_count>>
    /\ UNCHANGED <<bot_vars, loop_vars>>
    /\ UNCHANGED <<call_data, call_number, call_total, call_template, csv_data, html_template>>

\* Lines 490-501: the loop is over and the tally is printed.
main_done ==
    /\ handler \in {"", "main_row"}
    /\ idx = Len(csv_data)
    /\ handler' = "main_done"
    /\ UNCHANGED <<bot_vars, loop_vars>>
    /\ UNCHANGED pdf_vars

\* The number of rows of the CSV file.
MaxRows == 3

name_column(s) == <<[key |-> <<"n", "a", "m", "e">>, value |-> s]>>
priced == column(Key_price, StrValue(<<"1", "2">>)) \o column(Key_qty, StrValue(<<"3">>))

MainRows ==
    { name_column(StrValue(<<"A", "n", "n">>)) \o priced,
      name_column(StrValue(<<"a", "/", "b">>)) \o priced,
      name_column(StrValue(<<"a", "_", "b">>)) \o column(Key_price, StrValue(<<"n", "/", "a">>)),
      name_column(StrValue(<<" ", "\t", " ">>)) \o priced,
      name_column(StrValue(<<"?", " ", " ", "x", "\t", "*">>)),
      name_column(StrValue(repeat("x", MaxBase) \o <<"y", " ", "z">>)),
      name_column(StrValue(<<"r", "e", "c", "o", "r", "d", "_", "2">>)) \o column(Key_qty, StrValue(repeat("9", HugeLen))),
      column(Key_price, StrValue(repeat("9", HugeLen))) \o column(Key_qty, StrValue(<<"1">>)) }

RECURSIVE Batches(_)
Batches(n) ==
    IF n = 1 THEN {<<row>> : row \in MainRows}
    ELSE LET shorter == Batches(n - 1)
         IN shorter \cup {Append(b, row) : b \in shorter, row \in MainRows}

MainTemplate == <<"{", "{", "n", "a", "m", "e", "}", "}", ":", " ", "{", "t", "o", "t", "a", "l", "}", " ", "{", "x", "}">>

InitMain ==
    /\ bot_idle
    /\ handler = ""
    /\ call_data = <<>>
    /\ call_number = 0
    /\ call_total = 0
    /\ call_template = <<>>
    /\ returned = <<>>
    /\ csv_data \in Batches(MaxRows)
    /\ html_template = MainTemplate
    /\ idx = 0
    /\ success_count = 0
    /\ error_count = 0
    /\ generated_pdfs = <<>>

NextMain ==
    \/ \E t \in Clock, written \in BOOLEAN : main_row(t, written)
    \/ main_done

SpecMain == InitMain /\ [][NextMain]_vars

\* The text of the first column of row i as the file system must not see it.
first_text(i) == str_of[csv_data[i][1].value]
blank(s) == \A k \in DOMAIN s : s[k] \in Whitespace

\* C19: in one batch the file names of two rows differ, also when their
\* first fields give the same base; a file name holds none of
\* <>:"/\|?*, its base has at most 200 characters, and the base is
\* record_{index} when nothing is left of the first field.
C19_Filenames ==
    \A m \in DOMAIN generated_pdfs :
        LET f == generated_pdfs[m]
            tail == <<"_">> \o int_str[big[f.idx]] \o <<".", "p", "d", "f">>
            base == SubSeq(f.pdf_filename, 1, Len(f.pdf_filename) - Len(tail))
        IN /\ \A n \in DOMAIN generated_pdfs :
                  n # m => generated_pdfs[n].pdf_filename # f.pdf_filename
           /\ \A k \in DOMAIN f.pdf_filename : f.pdf_filename[k] \notin invalid_chars
           /\ f.pdf_filename = base \o tail
           /\ Len(base) >= 1 /\ Len(base) <= MaxBase
           /\ (blank(first_text(f.idx)) => base = record_(f.idx))

\* Two rows whose first fields give the same base, a row whose first
\* field is blank and was named by its number.
C19_Witness ==
    /\ \E m, n \in DOMAIN generated_pdfs :
          /\ m # n
          /\ first_text(generated_pdfs[m].idx) # first_text(generated_pdfs[n].idx)
          /\ filename_base(csv_data[generated_pdfs[m].idx], 1)
                 = filename_base(csv_data[generated_pdfs[n].idx], 1)
    /\ \E m \in DOMAIN generated_pdfs : blank(first_text(generated_pdfs[m].idx))

\* C20: the loop handles every row once and in order and never stops
\* early: a row that fails is counted as one error and the next row is
\* handled; success_count + error_count is the number of rows handled so
\* far, and the number of rows of the file when the loop is over.
C20_Tally ==
    /\ handler # "main_raised"
    /\ idx <= Len(csv_data)
    /\ success_count + error_count = idx
    /\ \A m \in DOMAIN generated_pdfs :
          /\ generated_pdfs[m].idx <= idx
          /\ \A n \in DOMAIN generated_pdfs : m < n => generated_pdfs[m].idx < generated_pdfs[n].idx
    /\ success_count = Cardinality({m \in DOMAIN generated_pdfs : generated_pdfs[m].written})
    /\ (handler = "main_done" => success_count + error_count = Len(csv_data))

\* A batch that is over, in which calculate_fields raised for one row,
\* rendering failed for another, and a row after them was rendered.
C20_Witness ==
    /\ handler = "main_done"
    /\ Len(csv_data) = MaxRows
    /\ Len(generated_pdfs) = 2
    /\ ~generated_pdfs[1].written
    /\ generated_pdfs[2].written
    /\ generated_pdfs[2].idx = MaxRows
    /\ error_count = 2

\* C21: when no rendering fails, a batch of N rows ends with N documents
\* written and no error, whatever the rows hold.
C21_AllRendered ==
    (handler = "main_done" /\ \A m \in DOMAIN generated_pdfs : generated_pdfs[m].written)
    => (success_count = Len(csv_data) /\ error_count = 0)

\* --------------------------------------------------------- generate_pdf
Upper == <<"A", "B", "C", "D", "E", "F", "G", "H", "I", "J", "K", "L", "M", "N", "O", "P", "Q", "R", "S", "T", "U", "V", "W", "X", "Y", "Z">>
Lower == <<"a", "b", "c", "d", "e", "f", "g", "h", "i", "j", "k", "l", "m", "n", "o", "p", "q", "r", "s", "t", "u", "v", "w", "x", "y", "z">>

\* s.lower(), for the letters A to Z.
lower_char(c) ==
    IF \E i \in DOMAIN Upper : Upper[i] = c
    THEN Lower[CHOOSE i \in DOMAIN Upper : Upper[i] = c]
    ELSE c

str_lower[s \in Chars] == [i \in DOMAIN s |-> lower_char(s[i])]

\* s.replace(old, new, 1), with the place of the first old in s (0: none).
replace_at[s \in Chars, i \in Nat, old \in Chars, new \in Chars] ==
    IF i = 0 THEN s ELSE SubSeq(s, 1, i - 1) \o new \o SubSeq(s, i + Len(old), Len(s))

replace_once[s \in Chars, old \in Chars, new \in Chars] ==
    replace_at[s, str_find[s, old, 1], old, new]

Tag_head == <<"<", "h", "e", "a", "d", ">">>
Tag_head_end == <<"<", "/", "h", "e", "a", "d", ">">>
Tag_body == <<"<", "b", "o", "d", "y", ">">>
Tag_meta == <<"<", "m", "e", "t", "a", " ", "c", "h", "a", "r", "s", "e", "t", "=", "\"", "U", "T", "F", "-", "8", "\"", ">">>

\* table_styles: the rules between the two tags are left out.
table_styles == <<"\n", "<", "s", "t", "y", "l", "e", ">", "\n", "<", "/", "s", "t", "y", "l", "e", ">", "\n">>

\* Lines 305-306, on the text in which <head> was replaced.
head_or_new[html_content \in Chars] ==
    IF ~str_in[Tag_head, html_content]
    THEN Tag_head \o <<"\n">> \o Tag_meta \o <<"\n">> \o Tag_head_end \o <<"\n">> \o html_content
    ELSE html_content

\* Lines 302-306.
with_meta[html_content \in Chars] ==
    IF /\ ~str_in[<<"<", "m", "e", "t", "a", " ", "c", "h", "a", "r", "s", "e", "t">>, str_lower[html_content]]
       /\ ~str_in[<<"<", "m", "e", "t", "a", " ", "h", "t", "t", "p", "-", "e", "q", "u", "i", "v">>, str_lower[html_content]]
    THEN head_or_new[replace_once[html_content, Tag_head, Tag_head \o <<"\n">> \o Tag_meta]]
    ELSE html_content

\* Lines 309-364.
with_style[html_content \in Chars] ==
    IF ~str_in[<<"<", "s", "t", "y", "l", "e">>, str_lower[html_content]]
    THEN IF str_in[Tag_head_end, html_content]
         THEN replace_once[html_content, Tag_head_end, table_styles \o Tag_head_end]
         ELSE IF str_in[<<"<", "b", "o", "d", "y">>, html_content]
         THEN replace_once[html_content, Tag_body,
                            Tag_head \o table_styles \o Tag_head_end \o <<"\n">> \o Tag_body]
         ELSE Tag_head \o table_styles \o Tag_head_end \o <<"\n">> \o html_content
    ELSE html_content

\* The string generate_pdf hands to HTML(string=...).
html_for_backend[html_content \in Chars] == with_style[with_meta[html_content]]

\* ------------------------------------------------ generate_pdf on its own
\* The number of pieces an html text is put together from.
MaxTags == 3

HtmlPieces ==
    { <<"<", "h", "e", "a", "d", ">">>,
      <<"<", "H", "E", "A", "D", ">">>,
      <<"<", "h", "e", "a", "d", " ", "a", ">">>,
      <<"<", "/", "h", "e", "a", "d", ">">>,
      <<"<", "/", "H", "E", "A", "D", ">">>,
      <<"<", "b", "o", "d", "y", ">">>,
      <<"<", "b", "o", "d", "y", " ", "a", ">">>,
      <<"<", "B", "O", "D", "Y", ">">>,
      <<"<", "m", "e", "t", "a", " ", "c", "h", "a", "r", "s", "e", "t", "=", "\"", "x", "\"", ">">>,
      <<"<", "M", "E", "T", "A", " ", "C", "H", "A", "R", "S", "E", "T", "=", "\"", "x", "\"", ">">>,
      <<"<", "m", "e", "t", "a", " ", "h", "t", "t", "p", "-", "e", "q", "u", "i", "v", "=", "\"", "x", "\"", ">">>,
      <<"<", "s", "t", "y", "l", "e", ">">>,
      <<"<", "S", "T", "Y", "L", "E", ">">>,
      <<"t">> }

RECURSIVE Htmls(_)
Htmls(n) ==
    IF n = 0 THEN {<<>>}
    ELSE LET shorter == Htmls(n - 1)
         IN shorter \cup {p \o h : p \in HtmlPieces, h \in shorter}

InitRender ==
    /\ bot_idle
    /\ handler = ""
    /\ call_data = <<>>
    /\ call_number = 0
    /\ call_total = 0
    /\ call_template \in Htmls(MaxTags)
    /\ returned = <<>>
    /\ csv_data = <<>>
    /\ html_template = <<>>
    /\ idx = 0
    /\ success_count = 0
    /\ error_count = 0
    /\ generated_pdfs = <<>>

\* One call generate_pdf(call_template, path): returned holds the text
\* handed to the backend and the flag the call answers, which is whether
\* the backend wrote the file.
generate_pdf(written) ==
    /\ handler = ""
    /\ handler' = "generate_pdf"
    /\ returned' = [html_content |-> html_for_backend[call_template], value |-> written]
    /\ UNCHANGED <<bot_vars, loop_vars>>
    /\ UNCHANGED <<call_data, call_number, call_total, call_template, csv_data,
                   html_template, idx, success_count, error_count, generated_pdfs>>

NextRender == \E written \in BOOLEAN : generate_pdf(written)

SpecRender == InitRender /\ [][NextRender]_vars

\* The number of places at which old stands in s.
count(s, old) ==
    Cardinality({i \in 1..(Len(s) - Len(old) + 1) : SubSeq(s, i, i + Len(old) - 1) = old})

\* A charset declaration as line 302 looks for it, and a style element.
has_meta(s) == str_in[<<"<", "m", "e", "t", "a", " ", "c", "h", "a", "r", "s", "e", "t">>, str_lower[s]] \/ str_in[<<"<", "m", "e", "t", "a", " ", "h", "t", "t", "p", "-", "e", "q", "u", "i", "v">>, str_lower[s]]
has_style(s) == str_in[<<"<", "s", "t", "y", "l", "e">>, str_lower[s]]

\* C22: the text handed to the backend holds a charset meta tag and a
\* style element, whatever the input is; one that the input holds already
\* is not added again.
C22_MetaAndStyle ==
    handler = "generate_pdf" =>
        /\ has_meta(returned.html_content)
        /\ has_style(returned.html_content)
        /\ has_meta(call_template) =>
               count(str_lower[returned.html_content], <<"<", "m", "e", "t", "a", " ", "c", "h", "a", "r", "s", "e", "t">>)
                   = count(str_lower[call_template], <<"<", "m", "e", "t", "a", " ", "c", "h", "a", "r", "s", "e", "t">>)
        /\ has_style(call_template) =>
               count(str_lower[returned.html_content], <<"<", "s", "t", "y", "l", "e">>)
                   = count(str_lower[call_template], <<"<", "s", "t", "y", "l", "e">>)

\* ------------------------------------------------ claims on the sessions

\* C23: an add-command of user u, with or without text, leaves u no status
\* and text pair of an earlier flow: the stage after it is not
\* selecting_category, from which a category callback of the earlier flow
\* would store the earlier draft.
C23_AddClearsEarlier ==
    [][handler' = "cmd_add"
          => \A u \in Users : \A m \in AddCommands :
                cmd_add(u, m) => stage(user_states', u) # "selecting_category"
      ]_vars

\* The stage value and the draft of user b are the same before and after.
session_unchanged(b) ==
    /\ (b \in DOMAIN user_states') = (b \in DOMAIN user_states)
    /\ b \in DOMAIN user_states => user_states'[b] = user_states[b]
    /\ (b \in DOMAIN pending_tasks') = (b \in DOMAIN pending_tasks)
    /\ b \in DOMAIN pending_tasks => pending_tasks'[b] = pending_tasks[b]

\* The record a category callback C of user u stores.
stored(u, C) ==
    [id |-> seq + 1, text |-> user_states[u].text, user |-> u, created_at |-> now(seq),
     status |-> user_states[u].status, category |-> C]

\* C24: the number of records grows only by a category callback of user u
\* handled in selecting_category; u's stage becomes, or is set anew to,
\* selecting_category only by a status callback of u while a draft is held;
\* a category callback of u in any other stage leaves u without session and
\* stores nothing.
C24_InsertOnlyByCategoryChoice ==
    [][/\ Cardinality(tasks') > Cardinality(tasks)
          => /\ handler' = "process_new_task_category"
             /\ \E u \in Users : \E C \in Categories :
                   /\ process_new_task_category(u, CategoryChoice(u, C))
                   /\ stage(user_states, u) = "selecting_category"
                   /\ tasks' = tasks \cup {stored(u, C)}
       /\ \A u \in Users :
             (/\ stage(user_states', u) = "selecting_category"
              /\ \/ stage(user_states, u) # "selecting_category"
                 \/ user_states'[u] # user_states[u])
             => /\ handler' = "process_new_task_status"
                /\ draft(pending_tasks, u) # <<>>
                /\ \E S \in Statuses : process_new_task_status(u, StatusChoice(u, S))
       /\ handler' = "process_new_task_category"
          => \A u \in Users : \A C \in Categories :
                (/\ process_new_task_category(u, CategoryChoice(u, C))
                 /\ stage(user_states, u) # "selecting_category")
                => /\ no_session(user_states', pending_tasks', u)
                   /\ tasks' = tasks
      ]_vars

\* Two records of two users, the second just stored, both sessions over.
C24_Witness ==
    /\ handler = "process_new_task_category"
    /\ out = <<"task_added", "added_ack", "what_next">>
    /\ \E r \in tasks, q \in tasks : r.user # q.user /\ r.category # q.category
    /\ \A u \in Users : no_session(user_states, pending_tasks, u)

\* A callback of user u, whichever handler it is routed to.
callback_query(u, d) ==
    \/ process_task_selection(u, d) \/ process_status_change(u, d)
    \/ process_category_change(u, d) \/ process_new_task_status(u, d)
    \/ process_new_task_category(u, d) \/ back_to_list(u, d)

\* The handlers, and the texts and payloads the dispatcher routes to each.
Handlers ==
    {message_handler(m) : m \in Messages} \cup {callback_handler(d) : d \in CallbackData}
routed_messages == [h \in Handlers |-> {m \in Messages : message_handler(m) = h}]
routed_callbacks == [h \in Handlers |-> {d \in CallbackData : callback_handler(d) = h}]

\* C27: an update whose acting user is a leaves the stage, the draft and the
\* records of every other user b as they were, whatever the payload names.
\* Said from b's side: a step that changes any of the three for b is not an
\* update of another user.
C27_Frame ==
    [][\A b \in Users :
          ~(/\ session_unchanged(b)
            /\ {r \in tasks' : r.user = b} = {r \in tasks : r.user = b})
          => \A a \in Users \ {b} :
                /\ \A m \in routed_messages[handler'] : ~text_message(a, m)
                /\ \A d \in routed_callbacks[handler'] : ~callback_query(a, d)
      ]_vars

\* A status callback naming a record of another user, who is choosing a
\* category, has just been answered.
C27_Witness ==
    /\ handler = "process_status_change"
    /\ out = <<"task_not_found">>
    /\ \E r \in tasks : stage(user_states, r.user) = "selecting_category"

\* C28: a draft is held only in selecting_status or selecting_category, it
\* is not empty, and in selecting_category the stage carries the same text.
C28_DraftHeld ==
    \A u \in Users :
        u \in DOMAIN pending_tasks
        => /\ stage(user_states, u) \in {"selecting_status", "selecting_category"}
           /\ pending_tasks[u] # <<>>
           /\ stage(user_states, u) = "selecting_category"
              => user_states[u].text = pending_tasks[u]

\* ------------------------------------------- the handlers at their awaits
\* Updates are handled as tasks of one event loop: a handler runs until it
\* awaits, and other handlers run while it is suspended.  A handler whose
\* awaits come after its last access to user_states, pending_tasks, the
\* table and the files is one step, as above.  Three handlers go on after an
\* await: the two creation callbacks when they find nothing to go on with
\* (the session is dropped after the notice), and the export (the file is
\* removed after the delivery).  They are two steps each, and `running`
\* holds them in between.

\* The number of handlers that may be suspended together.
MaxRunning == 2

\* The number of drafts a user may create.
MaxDrafts == 1

suspended(name, u, content) == [name |-> name, user |-> u, content |-> content]

remove_at(s, i) == SubSeq(s, 1, i - 1) \o SubSeq(s, i + 1, Len(s))

FlowCallbacks == {d \in CallbackData : d.prefix \in {"new_task_status", "new_task_category"}}
ExportMessages == {<<"/list_csv">>}

\* cmd_add, counting the drafts it creates.
cmd_add_begin(u, m) ==
    /\ message_handler(m) = "cmd_add"
    /\ handler' = "cmd_add"
    /\ document' = <<>>
    /\ \E task_text \in {strip(replace_first(m, "/add"))} :
          IF task_text = <<>>
          THEN /\ pending_tasks' = pop(pending_tasks, u)
               /\ out' = <<"need_text">>
               /\ UNCHANGED <<user_states, created>>
          ELSE /\ created[u] < MaxDrafts
               /\ pending_tasks' = put(pop(pending_tasks, u), u, task_text)
               /\ user_states' = put(user_states, u, StrState("selecting_status"))
               /\ created' = [created EXCEPT ![u] = @ + 1]
               /\ out' = <<"choose_status">>
    /\ UNCHANGED <<tasks, seq, files, running, pdf_vars>>

\* process_new_task_status up to its first await: with no draft for its own
\* user it is suspended in callback.answer, before user_states.pop.
process_new_task_status_begin(u, d) ==
    IF u = d.num /\ draft(pending_tasks, u) = <<>>
    THEN /\ callback_handler(d) = "process_new_task_status"
         /\ Len(running) < MaxRunning
         /\ handler' = "process_new_task_status"
         /\ running' = Append(running, suspended("process_new_task_status", u, <<>>))
         /\ out' = <<"text_not_found">>
         /\ document' = <<>>
         /\ UNCHANGED <<tasks, seq, user_states, pending_tasks, files, created, pdf_vars>>
    ELSE process_new_task_status(u, d)

\* Lines 423-425, after callback.answer.
process_new_task_status_resume(i) ==
    /\ i \in DOMAIN running
    /\ running[i].name = "process_new_task_status"
    /\ handler' = "process_new_task_status"
    /\ running' = remove_at(running, i)
    /\ user_states' = pop(user_states, running[i].user)
    /\ out' = <<"flow_error">>
    /\ document' = <<>>
    /\ UNCHANGED <<tasks, seq, pending_tasks, files, created, pdf_vars>>

\* process_new_task_category up to its first await: with no status and text
\* pair for its own user it is suspended in callback.answer, before the pops.
process_new_task_category_begin(u, d) ==
    IF u = d.num /\ stage(user_states, u) # "selecting_category"
    THEN /\ callback_handler(d) = "process_new_task_category"
         /\ Len(running) < MaxRunning
         /\ handler' = "process_new_task_category"
         /\ running' = Append(running, suspended("process_new_task_category", u, <<>>))
         /\ out' = <<"data_not_found">>
         /\ document' = <<>>
         /\ UNCHANGED <<tasks, seq, user_states, pending_tasks, files, created, pdf_vars>>
    ELSE process_new_task_category(u, d)

\* Lines 467-470, after callback.answer.
process_new_task_category_resume(i) ==
    /\ i \in DOMAIN running
    /\ running[i].name = "process_new_task_category"
    /\ handler' = "process_new_task_category"
    /\ running' = remove_at(running, i)
    /\ user_states' = pop(user_states, running[i].user)
    /\ pending_tasks' = pop(pending_tasks, running[i].user)
    /\ out' = <<"flow_error">>
    /\ document' = <<>>
    /\ UNCHANGED <<tasks, seq, files, created, pdf_vars>>

\* cmd_list_csv (and handle_export_button, which calls it) up to its first
\* await: the file is written and the handler is suspended in
\* answer_document.
cmd_list_csv_begin(u, m) ==
    /\ m \in ExportMessages
    /\ handler' = message_handler(m)
    /\ user_states' = pop(user_states, u)
    /\ pending_tasks' = pop(pending_tasks, u)
    /\ document' = <<>>
    /\ IF get_tasks(tasks, u) = <<>>
       THEN /\ out' = <<"no_tasks_to_export">>
            /\ UNCHANGED <<files, running>>
       ELSE /\ Len(running) < MaxRunning
            /\ \E content \in {export_tasks_to_csv(tasks, u)} :
                  /\ files' = put(files, filename(u), content)
                  /\ running' = Append(running, suspended(message_handler(m), u, content))
            /\ out' = <<>>
    /\ UNCHANGED <<tasks, seq, created, pdf_vars>>

\* The rest of cmd_list_csv.  The upload reads the file at some time during
\* the await: `early` says that it had read it before any other handler ran,
\* otherwise it reads what is there now, and FSInputFile raises when nothing
\* is.  Then os.remove removes the file, and raises when there is none.
cmd_list_csv_resume(i, early) ==
    /\ i \in DOMAIN running
    /\ running[i].name \in {"cmd_list_csv", "handle_export_button"}
    /\ handler' = running[i].name
    /\ running' = remove_at(running, i)
    /\ \E filepath \in {filename(running[i].user)} :
          IF ~early /\ filepath \notin DOMAIN files
          THEN /\ out' = <<"export_error">>
               /\ document' = <<>>
               /\ UNCHANGED files
          ELSE /\ document' = IF early THEN running[i].content ELSE files[filepath]
               /\ IF filepath \in DOMAIN files
                  THEN /\ files' = pop(files, filepath)
                       /\ out' = <<"document">>
                  ELSE /\ UNCHANGED files
                       /\ out' = <<"document", "export_error">>
    /\ UNCHANGED <<tasks, seq, user_states, pending_tasks, created, pdf_vars>>

NextAwait ==
    \/ \E u \in Users :
          \/ \E m \in AddCommands : cmd_add_begin(u, m)
          \/ handle_cancel_button(u, <<BtnCancel>>)
          \/ \E d \in FlowCallbacks :
                \/ process_new_task_status_begin(u, d)
                \/ process_new_task_category_begin(u, d)
          \/ \E m \in ExportMessages : cmd_list_csv_begin(u, m)
    \/ \E i \in 1..MaxRunning :
          \/ process_new_task_status_resume(i)
          \/ process_new_task_category_resume(i)
          \/ \E early \in BOOLEAN : cmd_list_csv_resume(i, early)

SpecAwait == Init /\ [][NextAwait]_vars

\* C25: of each draft at most one record is stored, whatever the order of
\* the updates and of the steps of their handlers: a user never has more
\* records than drafts created.
C25_OneRecordPerDraft ==
    \A u \in Users : Cardinality({r \in tasks : r.user = u}) <= created[u]

\* The category callback of a stored draft has been delivered once more and
\* waits in its notice; the one draft of its user has its one record.
C25_Witness ==
    \E i \in DOMAIN running :
        /\ running[i].name = "process_new_task_category"
        /\ created[running[i].user] = 1
        /\ Cardinality({r \in tasks : r.user = running[i].user}) = 1

\* C26: while an export of user u is suspended in its delivery, u's file is
\* there and holds what that export wrote; no export ends with the error
\* notice; the files of two users differ.
C26_NoInterference ==
    /\ \A i \in DOMAIN running :
          running[i].name \in ExportHandlers
          => /\ filename(running[i].user) \in DOMAIN files
             /\ files[filename(running[i].user)] = running[i].content
    /\ handler \in ExportHandlers
       => \A k \in DOMAIN out : out[k] # "export_error"
    /\ \A u \in Users : \A v \in Users \ {u} : filename(u) # filename(v)
====
